---- MODULE Spec2Model ----
(***************************************************************************)
(* Model of ColesProductProcessor (src/coles/coles_product_processor.py):  *)
(* the canonicalisation of raw scraped records (process_products) and the  *)
(* intra-category deduplication (remove_duplicates) with its last-run      *)
(* statistics (product_stats).                                             *)
(*                                                                         *)
(* Representation of Python values:                                        *)
(*   str    a sequence of one-character strings, "" is << >>               *)
(*   number [t |-> "int" | "float", v |-> the value in thousandths]        *)
(*   dict   a function whose DOMAIN is the set of keys present             *)
(*   list   a sequence                                                     *)
(***************************************************************************)
EXTENDS Integers, Sequences, FiniteSets, TLC

VARIABLES pc, products, raw_records, processed_products, processed_ix, raised,
          unique_products, duplicate_products, unique_ix, duplicates_ix,
          product_stats, prev_stats, reprocessed,
          all_category_products, cross_duplicates,
          main_pc, category_ix, scraped, duplicate_report, metadata, main_log,
          successful_categories, total_products,
          sc_pc, max_pages, total_pages, page_num, all_products, sc_result,
          loaded, extracted,
          ag_pc, max_attempts, ag_page_num, consecutive_empty_pages, ag_all_products,
          ag_result, attempts,
          up_pc, up_products, up_i, total_inserted, up_result, sent,
          fd_pc, fd_file, json_files, file_ix, products_by_id, category_counts,
          category_stats, fd_total_products, total_duplicates_removed,
          duplicates_removed, fd_duplicates, fd_errors, fd_raised

\* the processor, the arguments and the results of its calls
procVars == <<pc, products, raw_records, processed_products, processed_ix, raised,
              unique_products, duplicate_products, unique_ix, duplicates_ix,
              product_stats, prev_stats, reprocessed,
              all_category_products, cross_duplicates>>

\* the locals of main in coles_scraper.py; main_log is the list of the files
\* written and the categories skipped so far
mainVars == <<main_pc, category_ix, scraped, duplicate_report, metadata, main_log,
              successful_categories, total_products>>

\* scrape_category: its argument max_pages, its locals and its result;
\* loaded is the list of the pages the loop has loaded, extracted the list
\* of the products the pages have yielded so far
scrapeVars == <<sc_pc, max_pages, total_pages, page_num, all_products, sc_result,
                loaded, extracted>>

\* scrape_category_aggressively: its argument max_attempts, its locals and
\* its result; attempts is the list of the pages attempted with what each
\* attempt came to
aggrVars == <<ag_pc, max_attempts, ag_page_num, consecutive_empty_pages, ag_all_products,
              ag_result, attempts>>

\* upload_products: its argument as the call has prepared it, its locals and
\* its result; sent is the list of the batches given to upsert with what
\* each upsert came to
uploadVars == <<up_pc, up_products, up_i, total_inserted, up_result, sent>>

\* find_duplicates of duplicates.py and of find_duplicate_products.py: fd_file
\* is the file the function is taken from, json_files the files found in
\* woolworths_data as json.load reads them, the others the locals;
\* fd_errors is the list of the files whose processing ended in the except
\* branch, fd_raised says that the function ended with an exception
fdVars == <<fd_pc, fd_file, json_files, file_ix, products_by_id, category_counts,
            category_stats, fd_total_products, total_duplicates_removed,
            duplicates_removed, fd_duplicates, fd_errors, fd_raised>>

\* the state of the programs around the processor
toolVars == <<mainVars, scrapeVars, aggrVars, uploadVars, fdVars>>

\* what the actions of Main leave alone beside the processor
notMain == <<scrapeVars, aggrVars, uploadVars, fdVars>>

\* what the actions of Scrape leave alone beside the processor
notScrape == <<mainVars, aggrVars, uploadVars, fdVars>>

\* what the actions of Aggressive leave alone beside the processor
notAggressive == <<mainVars, scrapeVars, uploadVars, fdVars>>

\* what the actions of Upload leave alone beside the processor
notUpload == <<mainVars, scrapeVars, aggrVars, fdVars>>

\* what the actions of FindDuplicates leave alone beside the processor
notFindDuplicates == <<mainVars, scrapeVars, aggrVars, uploadVars>>

vars == <<procVars, toolVars>>

\* the argument and the result of find_cross_category_duplicates
crossVars == <<all_category_products, cross_duplicates>>

(***************************************************************************)
(* Bounds of the model.                                                    *)
(***************************************************************************)
MaxDedupLen == 3
MaxRawLen == 2
MaxCategoryLen == 2
MaxScrapedLen == 2
MaxPagesArg == 2
MaxSitePages == 3
MaxAttempts == 6
MaxUploadLen == 201
MaxFiles == 3

(***************************************************************************)
(* Python values.                                                          *)
(***************************************************************************)
EmptyStr == << >>
EmptyDict == [k \in {} |-> 0]

Int_(n) == [t |-> "int", v |-> n * 1000]
Float_(mills) == [t |-> "float", v |-> mills]

\* dict.get(key, default)
Get(d, k, default) == IF k \in DOMAIN d THEN d[k] ELSE default

\* d[k] = val on a dict
Put(d, k, val) == [x \in (DOMAIN d) \cup {k} |-> IF x = k THEN val ELSE d[x]]

\* a local variable before its first assignment, and after it
Unbound == [bound |-> FALSE, v |-> 0]
Bound(n) == [bound |-> TRUE, v |-> n]

\* None where a str is expected, and None where a number is expected
NoneStr == <<"<None>">>
NoneNum == [t |-> "none", v |-> 0]

\* truth value of a str or None
StrTruthy(s) == s # NoneStr /\ Len(s) > 0

DigitChar(n) == CASE n = 0 -> "0" [] n = 1 -> "1" [] n = 2 -> "2" [] n = 3 -> "3"
                  [] n = 4 -> "4" [] n = 5 -> "5" [] n = 6 -> "6" [] n = 7 -> "7"
                  [] n = 8 -> "8" [] n = 9 -> "9"

RECURSIVE NatStr(_)
NatStr(n) == IF n < 10 THEN <<DigitChar(n)>> ELSE NatStr(n \div 10) \o <<DigitChar(n % 10)>>

\* the fractional digits of a float, thousandths m in 0..999, as repr prints them
FracStr(m) == IF m % 100 = 0 THEN <<DigitChar(m \div 100)>>
              ELSE IF m % 10 = 0 THEN <<DigitChar(m \div 100), DigitChar((m \div 10) % 10)>>
              ELSE <<DigitChar(m \div 100), DigitChar((m \div 10) % 10), DigitChar(m % 10)>>

Abs(n) == IF n < 0 THEN -n ELSE n

\* str(x) of a number, as an f-string formats it: 0 -> "0", 3.5 -> "3.5", 4.0 -> "4.0"
PyStr(x) == LET sign == IF x.v < 0 THEN <<"-">> ELSE << >>
                a == Abs(x.v)
            IN IF x.t = "int" THEN sign \o NatStr(a \div 1000)
               ELSE sign \o NatStr(a \div 1000) \o <<".">> \o FracStr(a % 1000)

(***************************************************************************)
(* Text helpers used by process_products: str.strip, str.split('|')[0],    *)
(* str.lower, the two regular expressions and float().                     *)
(***************************************************************************)
Whitespace == {" ", "\t", "\n"}
Digits == {"0", "1", "2", "3", "4", "5", "6", "7", "8", "9"}
LowerLetters == <<"a", "b", "c", "d", "e", "f", "g", "h", "i", "j", "k", "l", "m",
                  "n", "o", "p", "q", "r", "s", "t", "u", "v", "w", "x", "y", "z">>
UpperLetters == <<"A", "B", "C", "D", "E", "F", "G", "H", "I", "J", "K", "L", "M",
                  "N", "O", "P", "Q", "R", "S", "T", "U", "V", "W", "X", "Y", "Z">>
Range(f) == {f[i] : i \in DOMAIN f}
\* the characters \w matches
WordChars == Digits \cup Range(LowerLetters) \cup Range(UpperLetters) \cup {"_"}

LowerChar(c) == IF c \in Range(UpperLetters)
                THEN LowerLetters[CHOOSE i \in DOMAIN UpperLetters : UpperLetters[i] = c]
                ELSE c
\* str.lower()
Lower(s) == [i \in DOMAIN s |-> LowerChar(s[i])]

DigitVal(c) == CHOOSE n \in 0..9 : DigitChar(n) = c

\* str.strip()
RECURSIVE LStrip(_)
LStrip(s) == IF s # << >> /\ Head(s) \in Whitespace THEN LStrip(Tail(s)) ELSE s
RECURSIVE RStrip(_)
RStrip(s) == IF s # << >> /\ s[Len(s)] \in Whitespace THEN RStrip(SubSeq(s, 1, Len(s) - 1)) ELSE s
Strip(s) == RStrip(LStrip(s))

\* s.split('|')[0]: the text before the first '|', the whole text without one
RECURSIVE BeforeBar(_)
BeforeBar(s) == IF s = << >> \/ Head(s) = "|" THEN << >> ELSE <<Head(s)>> \o BeforeBar(Tail(s))

\* end (exclusive) of the longest run of characters of set cs that starts at i
RECURSIVE RunEnd(_, _, _)
RunEnd(s, i, cs) == IF i <= Len(s) /\ s[i] \in cs THEN RunEnd(s, i + 1, cs) ELSE i

\* does the literal lit occur in s at position i
LitAt(s, i, lit) == i + Len(lit) - 1 <= Len(s) /\ SubSeq(s, i, i + Len(lit) - 1) = lit

\* re.search(r'-(\d+)$', url): group 1, or << >> when there is no match.
\* $ matches at the end and before one final newline.
RECURSIVE DigitRunStart(_, _)
DigitRunStart(s, i) == IF i >= 1 /\ s[i] \in Digits THEN DigitRunStart(s, i - 1) ELSE i + 1

UrlIdAtEnd(s) == LET b == DigitRunStart(s, Len(s)) IN
                 IF b <= Len(s) /\ b >= 2 /\ s[b - 1] = "-" THEN SubSeq(s, b, Len(s)) ELSE << >>

UrlIdMatch(url) ==
    LET at_end == UrlIdAtEnd(url) IN
    IF at_end # << >> THEN at_end
    ELSE IF url # << >> /\ url[Len(url)] = "\n" THEN UrlIdAtEnd(SubSeq(url, 1, Len(url) - 1))
    ELSE << >>

\* re.search(r'\$([\d\.]+)\s+per\s+(\w+)', unit_price) tried at position i:
\* [ok, num, unit]
RateMatchAt(s, i) ==
    LET n1 == i + 1
        n2 == RunEnd(s, n1, Digits \cup {"."})
        w2 == RunEnd(s, n2, Whitespace)
        p2 == w2 + 3
        v2 == RunEnd(s, p2, Whitespace)
        u2 == RunEnd(s, v2, WordChars)
    IN IF /\ i <= Len(s) /\ s[i] = "$"
          /\ n2 > n1 /\ w2 > n2
          /\ LitAt(s, w2, <<"p", "e", "r">>)
          /\ v2 > p2 /\ u2 > v2
       THEN [ok |-> TRUE, num |-> SubSeq(s, n1, n2 - 1), unit |-> SubSeq(s, v2, u2 - 1)]
       ELSE [ok |-> FALSE, num |-> << >>, unit |-> << >>]

RECURSIVE RateSearchFrom(_, _)
RateSearchFrom(s, i) ==
    LET here == RateMatchAt(s, i) IN
    IF i > Len(s) THEN [ok |-> FALSE, num |-> << >>, unit |-> << >>]
    ELSE IF here.ok THEN here
    ELSE RateSearchFrom(s, i + 1)

RateSearch(s) == RateSearchFrom(s, 1)

\* float(text) for a text of digits and dots: a ValueError unless it has at
\* least one digit and at most one dot
CountOf(s, c) == Cardinality({i \in DOMAIN s : s[i] = c})
FloatOk(s) == CountOf(s, ".") <= 1 /\ Len(s) > CountOf(s, ".")

RECURSIVE DigitsVal(_)
DigitsVal(s) == IF s = << >> THEN 0 ELSE DigitsVal(SubSeq(s, 1, Len(s) - 1)) * 10 + DigitVal(s[Len(s)])

\* the first three decimals in thousandths (further decimals are not kept)
FracVal(s) == LET d(i) == IF i <= Len(s) THEN DigitVal(s[i]) ELSE 0
              IN d(1) * 100 + d(2) * 10 + d(3)

ParseFloat(s) == LET dot == RunEnd(s, 1, Digits) IN
                 Float_(DigitsVal(SubSeq(s, 1, dot - 1)) * 1000 + FracVal(SubSeq(s, dot + 1, Len(s))))

\* round(x, 2) on thousandths; an exact decimal tie goes to the even cent
Round2(m) == LET r == m % 10
                 base == m - r
             IN IF r < 5 THEN base
                ELSE IF r > 5 THEN base + 10
                ELSE IF (base \div 10) % 2 = 0 THEN base ELSE base + 10


(***************************************************************************)
(* process_products                                                        *)
(***************************************************************************)
Coles == <<"c", "o", "l", "e", "s">>

StrKeys == {"id", "title", "unit_price", "url", "image_url", "category", "vendor",
            "special_text", "rate_unit", "scrapedAt"}
NumKeys == {"price_value", "was_price_value", "save_value", "page", "rate_value"}

IsNone(k, val) == IF k \in StrKeys THEN val = NoneStr
                  ELSE IF k \in NumKeys THEN val.t = "none"
                  ELSE FALSE

\* the test written as: if product.get('title') is None
Rejected_OnlyMissing(product) == Get(product, "title", NoneStr) = NoneStr

\* if not product.get('title'): continue
Rejected(product) == ~StrTruthy(Get(product, "title", NoneStr))

\* lines 41-46: the id taken from the url when the record has none
WithUrlId(product) ==
    LET url == Get(product, "url", EmptyStr)
        id_match == UrlIdMatch(url)
    IN
    IF ~StrTruthy(Get(product, "id", NoneStr)) /\ StrTruthy(Get(product, "url", NoneStr))
       /\ id_match # << >>
    THEN Put(product, "id", id_match)
    ELSE product

\* line 49
WithVendor(product) == Put(product, "vendor", Coles)

\* lines 52-56: the local unit_price after the clean-up
CleanUnitPrice(product) ==
    LET unit_price == Get(product, "unit_price", EmptyStr) IN
    IF StrTruthy(unit_price) THEN Strip(BeforeBar(unit_price)) ELSE unit_price

\* line 56
WithUnitPrice(product) ==
    IF StrTruthy(Get(product, "unit_price", EmptyStr))
    THEN Put(product, "unit_price", CleanUnitPrice(product))
    ELSE product

\* lines 59-69: unit_price is the cleaned local; a ValueError of float() is
\* caught and logged, leaving the record as it was
WithRate(product, unit_price) ==
    LET rate_match == RateSearch(unit_price) IN
    IF StrTruthy(unit_price) /\ rate_match.ok /\ FloatOk(rate_match.num)
    THEN Put(Put(product, "rate_value", ParseFloat(rate_match.num)),
             "rate_unit", Lower(rate_match.unit))
    ELSE product

\* lines 72-77
WithSpecial(product) ==
    LET special_text == Get(product, "special_text", EmptyStr) IN
    IF StrTruthy(special_text)
    THEN Put(Put(product, "is_on_special", TRUE), "special_text", Strip(special_text))
    ELSE Put(product, "is_on_special", FALSE)

\* was_price - current_price, an int only when both are
Minus(a, b) == [t |-> IF a.t = "int" /\ b.t = "int" THEN "int" ELSE "float", v |-> a.v - b.v]
\* round(x, 2)
Round(x) == [t |-> x.t, v |-> Round2(x.v)]

was_price(product) == Get(product, "was_price_value", Float_(0))
current_price(product) == Get(product, "price_value", Float_(0))
save_value(product) == Get(product, "save_value", Float_(0))

\* line 85: save_value == 0 and was_price > 0 and current_price > 0,
\* evaluated left to right; None > 0 is a TypeError
SaveCondRaises(product) ==
    /\ save_value(product).t # "none" /\ save_value(product).v = 0
    /\ \/ was_price(product).t = "none"
       \/ was_price(product).v > 0 /\ current_price(product).t = "none"

\* the test without save_value == 0
SaveCond_Always(product) ==
    /\ was_price(product).t # "none" /\ was_price(product).v > 0
    /\ current_price(product).t # "none" /\ current_price(product).v > 0

SaveCond(product) ==
    /\ save_value(product).t # "none" /\ save_value(product).v = 0
    /\ was_price(product).t # "none" /\ was_price(product).v > 0
    /\ current_price(product).t # "none" /\ current_price(product).v > 0

\* lines 80-86
WithSave(product) ==
    IF SaveCond(product)
    THEN Put(product, "save_value", Round(Minus(was_price(product), current_price(product))))
    ELSE product

\* the literal of line 100 written with a capital
CleanVendor_Capital(product) == <<"C", "o", "l", "e", "s">>

\* the vendor entry of the cleaned product, line 100
CleanVendor(product) == Coles

\* the title entry of the cleaned product, line 91
CleanTitle(product) == Strip(Get(product, "title", EmptyStr))

\* the default of line 103 written as None
CleanRateValue_DefaultNone(product) == Get(product, "rate_value", NoneNum)

\* the rate_value entry of the cleaned product, line 103
CleanRateValue(product) == Get(product, "rate_value", Float_(0))

\* the rate_unit entry of the cleaned product, line 104
CleanRateUnit(product) == Get(product, "rate_unit", EmptyStr)

\* the cleaned product returned without the filter of line 109
DropNone_KeepsAll(full) == full

\* {k: v for k, v in cleaned_product.items() if v is not None}, line 109
DropNone(full) == [k \in {x \in DOMAIN full : ~IsNone(x, full[x])} |-> full[k]]

\* lines 89-109: the cleaned product, None values removed
Cleaned(product, now) ==
    LET full == [id |-> Get(product, "id", EmptyStr),
                 title |-> CleanTitle(product),
                 price_value |-> Get(product, "price_value", Float_(0)),
                 was_price_value |-> Get(product, "was_price_value", Float_(0)),
                 save_value |-> Get(product, "save_value", Float_(0)),
                 unit_price |-> Get(product, "unit_price", EmptyStr),
                 url |-> Get(product, "url", EmptyStr),
                 image_url |-> Get(product, "image_url", EmptyStr),
                 category |-> Get(product, "category", EmptyStr),
                 page |-> Get(product, "page", Int_(0)),
                 vendor |-> CleanVendor(product),
                 is_on_special |-> Get(product, "is_on_special", FALSE),
                 special_text |-> Get(product, "special_text", EmptyStr),
                 rate_value |-> CleanRateValue(product),
                 rate_unit |-> CleanRateUnit(product),
                 scrapedAt |-> Get(product, "scrapedAt", now)]
    IN DropNone(full)

\* the rate searched in the whole raw unit_price, the text after '|' included
UpToSpecial_RateFromRaw(product) ==
    LET p2 == WithVendor(WithUrlId(product)) IN
    WithSpecial(WithRate(WithUnitPrice(p2), Get(p2, "unit_price", EmptyStr)))

\* the record as the loop body has changed it in place up to line 77
UpToSpecial(product) ==
    LET p2 == WithVendor(WithUrlId(product)) IN
    WithSpecial(WithRate(WithUnitPrice(p2), CleanUnitPrice(p2)))

\* the loop body putting the cleaned product in front of the list
ProcessStep_Prepend(st, product, i, now) ==
    LET p5 == UpToSpecial(product)
        p6 == WithSave(p5)
    IN
    IF Rejected(product)
    THEN [st EXCEPT !.raw = Append(st.raw, product)]
    ELSE IF SaveCondRaises(p5)
    THEN [st EXCEPT !.raw = Append(st.raw, p5), !.raised = TRUE]
    ELSE [st EXCEPT !.out = <<Cleaned(p6, now)>> \o st.out,
                    !.out_ix = <<i>> \o st.out_ix,
                    !.raw = Append(st.raw, p6)]

\* one iteration of the loop at line 36 on st = [out, out_ix, raw, raised]:
\* out is processed_products, out_ix the positions in the argument of the
\* records out was built from, raw the records of the argument as they are now
ProcessStep(st, product, i, now) ==
    LET p5 == UpToSpecial(product)
        p6 == WithSave(p5)
    IN
    IF Rejected(product)
    THEN [st EXCEPT !.raw = Append(st.raw, product)]
    ELSE IF SaveCondRaises(p5)
    THEN [st EXCEPT !.raw = Append(st.raw, p5), !.raised = TRUE]
    ELSE [st EXCEPT !.out = Append(st.out, Cleaned(p6, now)),
                    !.out_ix = Append(st.out_ix, i),
                    !.raw = Append(st.raw, p6)]

RECURSIVE ProcessLoop(_, _, _, _)
ProcessLoop(st, ps, i, now) ==
    IF i > Len(ps) THEN st
    ELSE IF st.raised THEN [st EXCEPT !.raw = st.raw \o SubSeq(ps, i, Len(ps))]
    ELSE ProcessLoop(ProcessStep(st, ps[i], i, now), ps, i + 1, now)

process_products(ps, now) ==
    ProcessLoop([out |-> << >>, out_ix |-> << >>, raw |-> << >>, raised |-> FALSE], ps, 1, now)

(***************************************************************************)
(* remove_duplicates                                                       *)
(***************************************************************************)
\* pseudo_id built from the title alone
pseudo_id_TitleOnly(product) == Get(product, "title", EmptyStr) \o <<"-">>

\* pseudo_id = f"{product.get('title', '')}-{product.get('price_value', 0)}"
pseudo_id(product) ==
    Get(product, "title", EmptyStr) \o <<"-">> \o PyStr(Get(product, "price_value", Int_(0)))

\* the loop body with the elif product_id branch dropping the record
DedupStep_DropsRepeat(st, product, i) ==
    LET product_id == Get(product, "id", EmptyStr) IN
    IF StrTruthy(product_id) /\ product_id \notin st.seen
    THEN [st EXCEPT !.seen = st.seen \cup {product_id},
                    !.unique = Append(st.unique, product),
                    !.unique_ix = Append(st.unique_ix, i)]
    ELSE IF StrTruthy(product_id)
    THEN st
    ELSE IF pseudo_id(product) \notin st.seen
         THEN [st EXCEPT !.seen = st.seen \cup {pseudo_id(product)},
                         !.unique = Append(st.unique, product),
                         !.unique_ix = Append(st.unique_ix, i)]
         ELSE [st EXCEPT !.duplicates = Append(st.duplicates, product),
                         !.duplicates_ix = Append(st.duplicates_ix, i)]

\* the loop body without seen_ids.add(product_id) at line 124
DedupStep_NoMark(st, product, i) ==
    LET product_id == Get(product, "id", EmptyStr) IN
    IF StrTruthy(product_id) /\ product_id \notin st.seen
    THEN [st EXCEPT !.unique = Append(st.unique, product),
                    !.unique_ix = Append(st.unique_ix, i)]
    ELSE IF StrTruthy(product_id)
    THEN [st EXCEPT !.duplicates = Append(st.duplicates, product),
                    !.duplicates_ix = Append(st.duplicates_ix, i)]
    ELSE IF pseudo_id(product) \notin st.seen
         THEN [st EXCEPT !.seen = st.seen \cup {pseudo_id(product)},
                         !.unique = Append(st.unique, product),
                         !.unique_ix = Append(st.unique_ix, i)]
         ELSE [st EXCEPT !.duplicates = Append(st.duplicates, product),
                         !.duplicates_ix = Append(st.duplicates_ix, i)]

\* the loop body putting a duplicate in front of the duplicates list
DedupStep_DuplicateInFront(st, product, i) ==
    LET product_id == Get(product, "id", EmptyStr) IN
    IF StrTruthy(product_id) /\ product_id \notin st.seen
    THEN [st EXCEPT !.seen = st.seen \cup {product_id},
                    !.unique = Append(st.unique, product),
                    !.unique_ix = Append(st.unique_ix, i)]
    ELSE IF StrTruthy(product_id)
    THEN [st EXCEPT !.duplicates = <<product>> \o st.duplicates,
                    !.duplicates_ix = <<i>> \o st.duplicates_ix]
    ELSE IF pseudo_id(product) \notin st.seen
         THEN [st EXCEPT !.seen = st.seen \cup {pseudo_id(product)},
                         !.unique = Append(st.unique, product),
                         !.unique_ix = Append(st.unique_ix, i)]
         ELSE [st EXCEPT !.duplicates = <<product>> \o st.duplicates,
                         !.duplicates_ix = <<i>> \o st.duplicates_ix]

\* one iteration of the loop at line 121 on st = [seen, unique, duplicates,
\* unique_ix, duplicates_ix]; i is the position of product in the argument,
\* which stands for the identity of the dict object the lists refer to
DedupStep(st, product, i) ==
    LET product_id == Get(product, "id", EmptyStr) IN
    IF StrTruthy(product_id) /\ product_id \notin st.seen
    THEN [st EXCEPT !.seen = st.seen \cup {product_id},
                    !.unique = Append(st.unique, product),
                    !.unique_ix = Append(st.unique_ix, i)]
    ELSE IF StrTruthy(product_id)
    THEN [st EXCEPT !.duplicates = Append(st.duplicates, product),
                    !.duplicates_ix = Append(st.duplicates_ix, i)]
    ELSE IF pseudo_id(product) \notin st.seen
         THEN [st EXCEPT !.seen = st.seen \cup {pseudo_id(product)},
                         !.unique = Append(st.unique, product),
                         !.unique_ix = Append(st.unique_ix, i)]
         ELSE [st EXCEPT !.duplicates = Append(st.duplicates, product),
                         !.duplicates_ix = Append(st.duplicates_ix, i)]

RECURSIVE DedupLoop(_, _, _)
DedupLoop(st, ps, i) ==
    IF i > Len(ps) THEN st ELSE DedupLoop(DedupStep(st, ps[i], i), ps, i + 1)

\* duplicates_removed counted from the unique list
NewProductStats_WrongCount(self_stats, n_products, n_unique) ==
    [total_before |-> n_products,
     total_after |-> n_unique,
     duplicates_removed |-> n_unique]

\* the counters added to those of the earlier calls
NewProductStats_Accumulating(self_stats, n_products, n_unique) ==
    [total_before |-> Get(self_stats, "total_before", 0) + n_products,
     total_after |-> Get(self_stats, "total_after", 0) + n_unique,
     duplicates_removed |-> Get(self_stats, "duplicates_removed", 0) + n_products - n_unique]

\* self.product_stats = {...}; self_stats is the value the attribute had before
NewProductStats(self_stats, n_products, n_unique) ==
    [total_before |-> n_products,
     total_after |-> n_unique,
     duplicates_removed |-> n_products - n_unique]

remove_duplicates(self_stats, ps) ==
    LET st == DedupLoop([seen |-> {}, unique |-> << >>, duplicates |-> << >>,
                         unique_ix |-> << >>, duplicates_ix |-> << >>], ps, 1) IN
    [unique |-> st.unique,
     duplicates |-> st.duplicates,
     unique_ix |-> st.unique_ix,
     duplicates_ix |-> st.duplicates_ix,
     product_stats |-> NewProductStats(self_stats, Len(ps), Len(st.unique))]

(***************************************************************************)
(* find_cross_category_duplicates                                          *)
(* The mapping argument is the sequence of its items [category, products]  *)
(* in iteration order; a dict of lists is the sequence of its entries      *)
(* [id, products] in insertion order, a pair (category, product) is a      *)
(* 2-tuple.                                                                *)
(***************************************************************************)
\* products_by_id[product_id].append((category, product)), line 180
AppendPair(by_id, product_id, pair) ==
    IF \E n \in DOMAIN by_id : by_id[n].id = product_id
    THEN [n \in DOMAIN by_id |->
            IF by_id[n].id = product_id
            THEN [by_id[n] EXCEPT !.products = Append(by_id[n].products, pair)]
            ELSE by_id[n]]
    ELSE Append(by_id, [id |-> product_id, products |-> <<pair>>])

\* lines 177-180 for the products of one category, from position i on
RECURSIVE GroupProducts(_, _, _, _)
GroupProducts(by_id, category, ps, i) ==
    IF i > Len(ps) THEN by_id
    ELSE LET product_id == Get(ps[i], "id", NoneStr) IN
         GroupProducts(IF StrTruthy(product_id)
                       THEN AppendPair(by_id, product_id, <<category, ps[i]>>)
                       ELSE by_id,
                       category, ps, i + 1)

\* lines 176-180
RECURSIVE GroupCategories(_, _, _)
GroupCategories(by_id, items, i) ==
    IF i > Len(items) THEN by_id
    ELSE GroupCategories(GroupProducts(by_id, items[i].category, items[i].products, 1),
                         items, i + 1)

\* the group counted by its pairs instead of its categories
InSeveralCategories_CountsPairs(pairs) == Len(pairs) > 1

\* len(set(category for category, _ in products)) > 1, line 186
InSeveralCategories(pairs) == Cardinality({pairs[n][1] : n \in DOMAIN pairs}) > 1

\* the entries of q that are in several categories, in order
RECURSIVE SelectSeveral(_)
SelectSeveral(q) ==
    IF q = << >> THEN << >>
    ELSE (IF InSeveralCategories(Head(q).products) THEN <<Head(q)>> ELSE << >>)
         \o SelectSeveral(Tail(q))

find_cross_category_duplicates(items) == SelectSeveral(GroupCategories(<< >>, items, 1))

(***************************************************************************)
(* The inputs the operations are called with.                              *)
(***************************************************************************)
Without(d, ks) == [k \in (DOMAIN d) \ ks |-> d[k]]

Milk == <<"M", "i", "l", "k">>
Tea == <<"T", "e", "a">>
Id123 == <<"1", "2", "3">>
UrlMilk123 == <<"p", "/", "m", "-", "1", "2", "3">>
UnitKg == <<"$", "3", ".", "5", "0", " ", "p", "e", "r", " ", "K", "g", " ", "|", " ",
            "W", "a", "s", " ", "$", "4", ".", "0", "0", " ", "p", "e", "r", " ", "k", "g">>

\* a unit price without a rate before the '|' and with one after it
UnitEachWasKg == <<"e", "a", "c", "h", " ", "|", " ",
                   "W", "a", "s", " ", "$", "4", ".", "0", "0", " ", "p", "e", "r", " ", "K", "G">>
\* a unit price the pattern matches and float() rejects
UnitTwoDots == <<"$", "1", ".", "2", ".", "3", " ", "p", "e", "r", " ", "k", "g">>

\* a record as scrape_products_from_page and scrape_category produce it
BaseRaw == [id |-> Id123, title |-> Milk, price_value |-> Int_(4),
            was_price_value |-> Int_(5), save_value |-> Int_(0),
            unit_price |-> UnitKg, url |-> UrlMilk123, image_url |-> <<"i">>,
            category |-> <<"d">>, special_text |-> <<"1", "/", "2">>,
            vendor |-> Coles, scrapedAt |-> <<"t", "0">>, page |-> Int_(1)]

\* the record of the catch branch of the page script
ErrorRaw == [title |-> Tea, price_value |-> Int_(0), unit_price |-> EmptyStr,
             category |-> <<"d">>, vendor |-> Coles, page |-> Int_(1)]

RawPool ==
    { BaseRaw,
      [BaseRaw EXCEPT !.title = <<" ", "M", "i", "l", "k", " ">>, !.id = EmptyStr,
                      !.price_value = Float_(3500), !.was_price_value = Int_(0),
                      !.vendor = <<"a", "l", "d", "i">>, !.special_text = EmptyStr],
      Without(BaseRaw, {"title"}),
      Without([BaseRaw EXCEPT !.title = EmptyStr], {"vendor"}),
      [BaseRaw EXCEPT !.title = NoneStr, !.save_value = Float_(2500)],
      [BaseRaw EXCEPT !.title = <<"\t", " ">>, !.id = EmptyStr, !.url = EmptyStr],
      [BaseRaw EXCEPT !.id = EmptyStr, !.url = UrlMilk123 \o <<"\n">>,
                      !.save_value = Float_(2500)],
      ErrorRaw,
      Without([BaseRaw EXCEPT !.was_price_value = Float_(5000), !.price_value = Float_(3998),
                              !.id = EmptyStr, !.url = EmptyStr, !.unit_price = UnitEachWasKg],
              {"save_value", "vendor"}),
      [BaseRaw EXCEPT !.was_price_value = Int_(4), !.price_value = Int_(5), !.title = Tea,
                      !.special_text = <<" ">>],
      [BaseRaw EXCEPT !.price_value = Int_(0), !.vendor = NoneStr, !.unit_price = UnitTwoDots,
                      !.id = NoneStr, !.url = EmptyStr],
      [BaseRaw EXCEPT !.price_value = NoneNum, !.save_value = Float_(2500), !.title = Tea,
                      !.id = NoneStr],
      [BaseRaw EXCEPT !.was_price_value = NoneNum, !.id = <<"9">>] }

\* records as a caller may hand them to remove_duplicates
DedupPool ==
    { [id |-> Id123, title |-> Milk, price_value |-> Float_(3500)],
      [id |-> Id123, title |-> Tea, price_value |-> Float_(3600)],
      [id |-> EmptyStr, title |-> Milk, price_value |-> Float_(3500)],
      [id |-> EmptyStr, title |-> Milk, price_value |-> Float_(3600)],
      [id |-> EmptyStr, title |-> Tea, price_value |-> Float_(3500)],
      [id |-> <<"M", "i", "l", "k", "-", "3", ".", "5">>, title |-> Tea, price_value |-> Int_(4)],
      [title |-> Milk],
      [id |-> EmptyStr, title |-> Milk, price_value |-> Int_(0)],
      [id |-> EmptyStr, title |-> Milk, price_value |-> Float_(0)] }

RECURSIVE SeqsUpTo(_, _)
SeqsUpTo(S, n) == IF n = 0 THEN {<< >>}
                  ELSE LET shorter == SeqsUpTo(S, n - 1)
                       IN shorter \cup {Append(q, x) : q \in {r \in shorter : Len(r) = n - 1}, x \in S}

\* products as main stores them per category
Id999 == <<"9", "9", "9">>
CrossPool ==
    { [id |-> Id999, title |-> Milk],
      [id |-> <<"1">>, title |-> Tea],
      [id |-> EmptyStr, title |-> Milk],
      [title |-> Tea] }
Bakery == <<"b", "a", "k", "e", "r", "y">>
Dairy == <<"d", "a", "i", "r", "y">>
Categories == {Bakery, Dairy}
CategoryLists == SeqsUpTo(CrossPool, MaxCategoryLen)
\* mappings of at most two categories, in each insertion order
CrossInputs ==
    {<< >>}
    \cup {<<[category |-> c, products |-> l]>> : c \in Categories, l \in CategoryLists}
    \cup {<<[category |-> c1, products |-> l1], [category |-> c2, products |-> l2]>> :
             <<c1, c2>> \in {cc \in Categories \X Categories : cc[1] # cc[2]},
             l1 \in CategoryLists, l2 \in CategoryLists}

RawInputs == SeqsUpTo(RawPool, MaxRawLen)
DedupInputs == SeqsUpTo(DedupPool, MaxDedupLen)

\* datetime.now().isoformat() of a call; never equal to a scraped time stamp
Now == <<"n", "o", "w">>
\* datetime.now().isoformat() of a later call
Later == <<"l", "a", "t", "e", "r">>

(***************************************************************************)
(* The processor object and the calls made on it.                          *)
(***************************************************************************)
\* ColesProductProcessor.__init__, before any call
Init ==
    /\ pc = "idle"
    /\ products = << >>
    /\ raw_records = << >>
    /\ processed_products = << >>
    /\ processed_ix = << >>
    /\ raised = FALSE
    /\ unique_products = << >>
    /\ duplicate_products = << >>
    /\ unique_ix = << >>
    /\ duplicates_ix = << >>
    /\ product_stats = EmptyDict
    /\ prev_stats = EmptyDict
    /\ reprocessed = << >>
    /\ all_category_products = << >>
    /\ cross_duplicates = << >>
    /\ main_pc = "loop"
    /\ category_ix = 0
    /\ scraped = << >>
    /\ duplicate_report = << >>
    /\ metadata = EmptyDict
    /\ main_log = << >>
    /\ successful_categories = 0
    /\ total_products = 0
    /\ sc_pc = "start"
    /\ max_pages = 0
    /\ total_pages = 0
    /\ page_num = 0
    /\ all_products = << >>
    /\ sc_result = << >>
    /\ loaded = << >>
    /\ extracted = << >>
    /\ ag_pc = "start"
    /\ max_attempts = 0
    /\ ag_page_num = 0
    /\ consecutive_empty_pages = 0
    /\ ag_all_products = << >>
    /\ ag_result = << >>
    /\ attempts = << >>
    /\ up_pc = "start"
    /\ up_products = << >>
    /\ up_i = 0
    /\ total_inserted = 0
    /\ up_result = 0
    /\ sent = << >>
    /\ fd_pc = "start"
    /\ fd_file = "duplicates.py"
    /\ json_files = << >>
    /\ file_ix = 0
    /\ products_by_id = EmptyDict
    /\ category_counts = EmptyDict
    /\ category_stats = EmptyDict
    /\ fd_total_products = 0
    /\ total_duplicates_removed = 0
    /\ duplicates_removed = Unbound
    /\ fd_duplicates = EmptyDict
    /\ fd_errors = << >>
    /\ fd_raised = FALSE

\* processor.process_products(input)
CallProcessProducts ==
    /\ pc = "idle"
    /\ \E input \in RawInputs :
         LET r == process_products(input, Now) IN
         /\ raw_records' = input
         /\ products' = r.raw
         /\ raised' = r.raised
         /\ processed_products' = IF r.raised THEN << >> ELSE r.out
         /\ processed_ix' = IF r.raised THEN << >> ELSE r.out_ix
    /\ pc' = "process_products"
    /\ UNCHANGED <<unique_products, duplicate_products, unique_ix, duplicates_ix,
                   product_stats, prev_stats, reprocessed, crossVars, toolVars>>

\* processor.process_products(processed_products): the output of a call
\* given to a second call
ReprocessProcessed ==
    /\ pc = "process_products"
    /\ ~raised
    /\ LET r == process_products(processed_products, Later) IN
         /\ products' = r.raw
         /\ raised' = r.raised
         /\ reprocessed' = IF r.raised THEN << >> ELSE r.out
    /\ pc' = "reprocessed"
    /\ UNCHANGED <<raw_records, processed_products, processed_ix,
                   unique_products, duplicate_products, unique_ix, duplicates_ix,
                   product_stats, prev_stats, crossVars, toolVars>>

\* the assignments a remove_duplicates(input) call makes
DoRemoveDuplicates(input) ==
    LET r == remove_duplicates(product_stats, input) IN
    /\ products' = input
    /\ unique_products' = r.unique
    /\ duplicate_products' = r.duplicates
    /\ unique_ix' = r.unique_ix
    /\ duplicates_ix' = r.duplicates_ix
    /\ prev_stats' = product_stats
    /\ product_stats' = r.product_stats
    /\ pc' = "remove_duplicates"

\* processor.remove_duplicates(input) on a list of the caller
CallRemoveDuplicates ==
    /\ pc = "idle"
    /\ \E input \in DedupInputs : DoRemoveDuplicates(input)
    /\ raw_records' = << >>
    /\ processed_products' = << >>
    /\ processed_ix' = << >>
    /\ UNCHANGED <<raised, reprocessed, crossVars, toolVars>>

\* processor.remove_duplicates(processed_products), as main does
RemoveDuplicatesOfProcessed ==
    /\ pc = "process_products"
    /\ ~raised
    /\ DoRemoveDuplicates(processed_products)
    /\ UNCHANGED <<raw_records, processed_products, processed_ix, raised, reprocessed,
                   crossVars, toolVars>>

\* processor.find_cross_category_duplicates(input)
CallFindCrossCategoryDuplicates ==
    /\ pc = "idle"
    /\ \E input \in CrossInputs :
         /\ all_category_products' = input
         /\ cross_duplicates' = find_cross_category_duplicates(input)
    /\ pc' = "find_cross_category_duplicates"
    /\ UNCHANGED <<products, raw_records, processed_products, processed_ix, raised,
                   unique_products, duplicate_products, unique_ix, duplicates_ix,
                   product_stats, prev_stats, reprocessed, toolVars>>

\* the call has returned and its lists are dropped; product_stats stays
Return ==
    /\ pc \in {"process_products", "reprocessed", "remove_duplicates",
               "find_cross_category_duplicates"}
    /\ pc' = "idle"
    /\ products' = << >>
    /\ raw_records' = << >>
    /\ processed_products' = << >>
    /\ processed_ix' = << >>
    /\ raised' = FALSE
    /\ unique_products' = << >>
    /\ duplicate_products' = << >>
    /\ unique_ix' = << >>
    /\ duplicates_ix' = << >>
    /\ prev_stats' = EmptyDict
    /\ reprocessed' = << >>
    /\ all_category_products' = << >>
    /\ cross_duplicates' = << >>
    /\ UNCHANGED <<product_stats, toolVars>>

\* the processor as main uses it: each list of scraped records is processed
\* and the processed list is deduplicated
Next == CallProcessProducts \/ ReprocessProcessed \/ RemoveDuplicatesOfProcessed \/ Return

Spec == Init /\ [][Next]_vars

\* the processor deduplicating lists of records of any caller
NextDedup == CallRemoveDuplicates \/ Return

SpecDedup == Init /\ [][NextDedup]_vars

\* the processor grouping the products of any mapping of categories
NextCross == CallFindCrossCategoryDuplicates \/ Return

SpecCross == Init /\ [][NextCross]_vars

(***************************************************************************)
(* generate_duplicate_report and the category loop of main                 *)
(* (src/coles/coles_scraper.py).  A line of the report is the literal text *)
(* of its f-string with {} for each replacement field, and the strings     *)
(* put in the fields.                                                      *)
(***************************************************************************)
Line(text, values) == [text |-> text, values |-> values]

Unknown == <<"U", "n", "k", "n", "o", "w", "n">>
NotAvailable == <<"N", "/", "A">>
Yes == <<"Y", "e", "s">>

\* lines 163-167: the lines of the i-th removed product
DuplicateBlock(product, i) ==
    <<Line("{}. ID: {} - {}",
           <<NatStr(i), Get(product, "id", Unknown), Get(product, "title", Unknown)>>),
      Line("   Price: ${}, Category: {}",
           <<PyStr(Get(product, "price_value", Int_(0))),
             Get(product, "category", NotAvailable)>>)>>
    \o (IF Get(product, "is_on_special", FALSE)
        THEN <<Line("   Special: {}", <<Get(product, "special_text", Yes)>>)>>
        ELSE << >>)
    \o <<Line("", << >>)>>

\* lines 161-167 from the i-th removed product on
RECURSIVE DuplicateBlocks(_, _)
DuplicateBlocks(duplicates, i) ==
    IF i > Len(duplicates) THEN << >>
    ELSE DuplicateBlock(duplicates[i], i) \o DuplicateBlocks(duplicates, i + 1)

\* lines 154-156: the counters are read from self.product_stats
CounterLines(self_stats) ==
    <<Line("Total products before removal: {}", <<NatStr(Get(self_stats, "total_before", 0))>>),
      Line("Unique products after removal: {}", <<NatStr(Get(self_stats, "total_after", 0))>>),
      Line("Duplicates removed: {}", <<NatStr(Get(self_stats, "duplicates_removed", 0))>>)>>

\* the report with a block heading also for an empty list
DuplicateSection_Always(duplicates) ==
    <<Line("Removed duplicate products:", << >>)>> \o DuplicateBlocks(duplicates, 1)

\* lines 160-167
DuplicateSection(duplicates) ==
    IF duplicates # << >>
    THEN <<Line("Removed duplicate products:", << >>)>> \o DuplicateBlocks(duplicates, 1)
    ELSE << >>

\* the list report_lines; '\n'.join puts one line of text for each
generate_duplicate_report(self_stats, duplicates, category_name, now) ==
    <<Line("Duplicate Removal Report for Coles {}", <<category_name>>),
      Line("Generated on: {}", <<now>>),
      Line("", << >>)>>
    \o CounterLines(self_stats)
    \o <<Line("", << >>)>>
    \o DuplicateSection(duplicates)

\* all_category_products[category_name] = unique_products, line 568
DictSet(items, category, ps) ==
    IF \E n \in DOMAIN items : items[n].category = category
    THEN [n \in DOMAIN items |->
            IF items[n].category = category THEN [items[n] EXCEPT !.products = ps]
            ELSE items[n]]
    ELSE Append(items, [category |-> category, products |-> ps])

\* max(product.get('page', 1) for product in unique_products), line 590
RECURSIVE MaxPage(_)
MaxPage(ps) ==
    IF Len(ps) = 1 THEN Get(ps[1], "page", Int_(1))
    ELSE LET rest == MaxPage(Tail(ps))
             first == Get(ps[1], "page", Int_(1))
         IN IF rest.v > first.v THEN rest ELSE first

\* duplicates_removed counted as the scraped records that are not kept
Metadata_CountsRejected(category_name, raw_after, unique, self_stats, now) ==
    [category |-> category_name,
     timestamp |-> now,
     expected_products |-> Get(raw_after[1], "expected_count", Int_(0)),
     actual_products |-> Len(unique),
     duplicates_removed |-> Len(raw_after) - Len(unique),
     pages_scraped |-> IF unique # << >> THEN MaxPage(unique) ELSE Int_(0),
     vendor |-> Coles]

\* lines 580-592
Metadata(category_name, raw_after, unique, self_stats, now) ==
    [category |-> category_name,
     timestamp |-> now,
     expected_products |-> Get(raw_after[1], "expected_count", Int_(0)),
     actual_products |-> Len(unique),
     duplicates_removed |-> Get(self_stats, "duplicates_removed", 0),
     pages_scraped |-> IF unique # << >> THEN MaxPage(unique) ELSE Int_(0),
     vendor |-> Coles]

\* the categories main loops over
MainCategories == <<Bakery, Dairy>>

\* records as scrape_category returns them: tiles with and without a title
\* text, and the record of the catch branch
ScrapedPool ==
    { [BaseRaw EXCEPT !.category = Bakery],
      [BaseRaw EXCEPT !.title = Tea, !.price_value = Int_(5), !.was_price_value = Int_(0),
                      !.page = Int_(2), !.category = Bakery],
      [BaseRaw EXCEPT !.title = EmptyStr, !.id = EmptyStr, !.url = EmptyStr],
      ErrorRaw }

ScrapedInputs == SeqsUpTo(ScrapedPool, MaxScrapedLen)

\* products = await scrape_category(browser, category_url, args.max_pages)
MainScrapeCategory ==
    /\ main_pc = "loop"
    /\ category_ix < Len(MainCategories)
    /\ category_ix' = category_ix + 1
    /\ \E input \in ScrapedInputs : scraped' = input
    /\ main_pc' = "scraped"
    /\ UNCHANGED <<procVars, duplicate_report, metadata, main_log,
                   successful_categories, total_products, notMain>>

\* if not products: continue
MainSkipCategory ==
    /\ main_pc = "scraped"
    /\ scraped = << >>
    /\ main_log' = Append(main_log, [category |-> MainCategories[category_ix],
                                     scraped |-> scraped, skipped |-> TRUE])
    /\ main_pc' = "loop"
    /\ UNCHANGED <<procVars, category_ix, scraped, duplicate_report, metadata,
                   successful_categories, total_products, notMain>>

\* lines 562-611: the category is processed, deduplicated, stored, reported
\* and written; an exception of process_products leaves main
MainHandleCategory ==
    /\ main_pc = "scraped"
    /\ scraped # << >>
    /\ LET category_name == MainCategories[category_ix]
           r == process_products(scraped, Now)
           d == remove_duplicates(product_stats, r.out)
           report == generate_duplicate_report(d.product_stats, d.duplicates,
                                               category_name, Now)
           meta == Metadata(category_name, r.raw, d.unique, d.product_stats, Now)
       IN
       /\ raw_records' = scraped
       /\ products' = r.raw
       /\ raised' = r.raised
       /\ IF r.raised
          THEN /\ main_pc' = "raised"
               /\ UNCHANGED <<processed_products, processed_ix, unique_products,
                              duplicate_products, unique_ix, duplicates_ix,
                              product_stats, prev_stats, all_category_products,
                              duplicate_report, metadata, main_log,
                              successful_categories, total_products>>
          ELSE /\ processed_products' = r.out
               /\ processed_ix' = r.out_ix
               /\ unique_products' = d.unique
               /\ duplicate_products' = d.duplicates
               /\ unique_ix' = d.unique_ix
               /\ duplicates_ix' = d.duplicates_ix
               /\ prev_stats' = product_stats
               /\ product_stats' = d.product_stats
               /\ all_category_products' = DictSet(all_category_products, category_name, d.unique)
               /\ duplicate_report' = report
               /\ metadata' = meta
               /\ successful_categories' = successful_categories + 1
               /\ total_products' = total_products + Len(d.unique)
               /\ main_log' = Append(main_log,
                                     [category |-> category_name, scraped |-> scraped,
                                      skipped |-> FALSE, canonical |-> r.out,
                                      duplicates |-> d.duplicates,
                                      total_after |-> d.product_stats.total_after,
                                      report |-> report,
                                      output |-> [metadata |-> meta, products |-> d.unique]])
               /\ main_pc' = "loop"
    /\ UNCHANGED <<pc, reprocessed, cross_duplicates, category_ix, scraped, notMain>>

\* line 655, after the loop
MainFindCrossDuplicates ==
    /\ main_pc = "loop"
    /\ category_ix = Len(MainCategories)
    /\ cross_duplicates' = find_cross_category_duplicates(all_category_products)
    /\ main_pc' = "done"
    /\ UNCHANGED <<pc, products, raw_records, processed_products, processed_ix, raised,
                   unique_products, duplicate_products, unique_ix, duplicates_ix,
                   product_stats, prev_stats, reprocessed, all_category_products,
                   category_ix, scraped, duplicate_report, metadata, main_log,
                   successful_categories, total_products, notMain>>

NextMain ==
    MainScrapeCategory \/ MainSkipCategory \/ MainHandleCategory \/ MainFindCrossDuplicates

SpecMain == Init /\ [][NextMain]_vars

(***************************************************************************)
(* scrape_category (src/coles/coles_scraper.py).  max_pages 0 stands for   *)
(* None, which the tests of the code do not tell from 0; the total pages   *)
(* of the site 0 stands for the None of get_total_pages.                   *)
(***************************************************************************)
\* total_pages = 10, line 384
DefaultTotalPages == 10

\* the values of --max-pages
MaxPagesArgs == 0..MaxPagesArg

\* the values get_total_pages returns
SiteTotals == 0..MaxSitePages

\* lines 382-392: the number of pages the loop is set to
TotalPages(site_total, limit) ==
    IF site_total = 0 THEN DefaultTotalPages
    ELSE IF limit # 0 /\ limit < site_total THEN limit
    ELSE site_total

\* the products of a page as the page script returns them
PageProducts == <<[title |-> Milk, category |-> Bakery]>>

\* product['page'] = page_num for each product, lines 440-441
Tagged(page_products, n) == [k \in DOMAIN page_products |-> Put(page_products[k], "page", Int_(n))]

\* lines 349-392: the page is opened, the first page loaded (retried once)
\* and the number of pages settled; two failed loads return []
ScrapeStart ==
    /\ sc_pc = "start"
    /\ \E limit \in MaxPagesArgs, first_load \in {"ok", "fails_twice"}, site_total \in SiteTotals :
         /\ max_pages' = limit
         /\ IF first_load = "fails_twice"
            THEN /\ sc_pc' = "returned"
                 /\ UNCHANGED <<total_pages, page_num>>
            ELSE /\ total_pages' = TotalPages(site_total, limit)
                 /\ page_num' = 1
                 /\ sc_pc' = "loop"
    /\ sc_result' = << >>
    /\ UNCHANGED <<all_products, loaded, extracted, procVars, notScrape>>

\* the loop goes on to the next page, or leaves after the last one
AfterPage == IF page_num = total_pages THEN "closing" ELSE "loop"

\* one iteration of the loop at line 394.  The page loads (at once or on the
\* retry) or fails twice and breaks; scrape_products_from_page returns
\* NO_PRODUCTS, no product or products, or its page.evaluate raises, which
\* the except of line 464 answers with return []
ScrapePage ==
    /\ sc_pc = "loop"
    /\ page_num <= total_pages
    /\ \E outcome \in {"load_fails_twice", "extraction_raises", "NO_PRODUCTS",
                       "empty", "products"} :
         CASE outcome = "load_fails_twice" ->
                /\ sc_pc' = "closing"
                /\ UNCHANGED <<all_products, sc_result, loaded, extracted>>
           [] outcome = "extraction_raises" ->
                /\ sc_pc' = "returned"
                /\ sc_result' = << >>
                /\ loaded' = Append(loaded, page_num)
                /\ UNCHANGED <<all_products, extracted>>
           [] outcome = "NO_PRODUCTS" ->
                /\ sc_pc' = "closing"
                /\ loaded' = Append(loaded, page_num)
                /\ UNCHANGED <<all_products, sc_result, extracted>>
           [] outcome = "empty" ->
                /\ sc_pc' = AfterPage
                /\ loaded' = Append(loaded, page_num)
                /\ UNCHANGED <<all_products, sc_result, extracted>>
           [] outcome = "products" ->
                /\ sc_pc' = AfterPage
                /\ loaded' = Append(loaded, page_num)
                /\ all_products' = all_products \o Tagged(PageProducts, page_num)
                /\ extracted' = extracted \o Tagged(PageProducts, page_num)
                /\ UNCHANGED sc_result
    /\ page_num' = page_num + 1
    /\ UNCHANGED <<max_pages, total_pages, procVars, notScrape>>

\* lines 457-460: await page.close() and return all_products; an exception
\* of close is answered by the except of line 464 with return []
ScrapeClose ==
    /\ sc_pc = "closing"
    /\ \E close \in {"ok", "raises"} :
         sc_result' = IF close = "ok" THEN all_products ELSE << >>
    /\ sc_pc' = "returned"
    /\ UNCHANGED <<max_pages, total_pages, page_num, all_products, loaded, extracted,
                   procVars, notScrape>>

\* the next call of scrape_category starts with fresh locals
ScrapeAgain ==
    /\ sc_pc = "returned"
    /\ sc_pc' = "start"
    /\ max_pages' = 0
    /\ total_pages' = 0
    /\ page_num' = 0
    /\ all_products' = << >>
    /\ sc_result' = << >>
    /\ loaded' = << >>
    /\ extracted' = << >>
    /\ UNCHANGED <<procVars, notScrape>>

NextScrape == ScrapeStart \/ ScrapePage \/ ScrapeClose \/ ScrapeAgain

SpecScrape == Init /\ [][NextScrape]_vars

(***************************************************************************)
(* scrape_category_aggressively (src/run_coles_realistic.py)               *)
(***************************************************************************)
\* if consecutive_empty_pages >= 3, lines 198, 223 and 233
EmptyPagesLimit == 3

\* what an attempt at a page comes to: an exception of goto, title or the
\* extraction; a title that is empty or has 'error' in it; no product;
\* products
AttemptOutcomes == {"raises", "error_title", "empty", "products"}

\* the counter without the reset of line 212
ConsecutiveAfter_NoReset(count, outcome) == IF outcome = "products" THEN count ELSE count + 1

\* consecutive_empty_pages after an attempt, lines 197, 212, 220 and 232
ConsecutiveAfter(count, outcome) == IF outcome = "products" THEN 0 ELSE count + 1

\* lines 158-179: the page is opened; an exception of newPage, setUserAgent
\* or setViewport returns []
AggressiveStart ==
    /\ ag_pc = "start"
    /\ \E n \in 1..MaxAttempts, open \in {"ok", "raises"} :
         /\ max_attempts' = n
         /\ ag_pc' = IF open = "ok" THEN "loop" ELSE "returned"
    /\ ag_page_num' = 1
    /\ consecutive_empty_pages' = 0
    /\ ag_all_products' = << >>
    /\ ag_result' = << >>
    /\ attempts' = << >>
    /\ UNCHANGED <<procVars, notAggressive>>

\* one iteration of the loop at line 181
AggressivePage ==
    /\ ag_pc = "loop"
    /\ ag_page_num <= max_attempts
    /\ \E outcome \in AttemptOutcomes :
         LET count == ConsecutiveAfter(consecutive_empty_pages, outcome) IN
         /\ attempts' = Append(attempts, [page |-> ag_page_num, outcome |-> outcome])
         /\ consecutive_empty_pages' = count
         /\ ag_all_products' = IF outcome = "products"
                               THEN ag_all_products \o Tagged(PageProducts, ag_page_num)
                               ELSE ag_all_products
         /\ ag_pc' = IF outcome # "products" /\ count >= EmptyPagesLimit THEN "closing"
                     ELSE IF ag_page_num = max_attempts THEN "closing"
                     ELSE "loop"
    /\ ag_page_num' = ag_page_num + 1
    /\ UNCHANGED <<max_attempts, ag_result, procVars, notAggressive>>

\* lines 236-243: await page.close() and return all_products; an exception
\* of close returns []
AggressiveClose ==
    /\ ag_pc = "closing"
    /\ \E close \in {"ok", "raises"} :
         ag_result' = IF close = "ok" THEN ag_all_products ELSE << >>
    /\ ag_pc' = "returned"
    /\ UNCHANGED <<max_attempts, ag_page_num, consecutive_empty_pages, ag_all_products,
                   attempts, procVars, notAggressive>>

\* the call for the next category starts over
AggressiveAgain ==
    /\ ag_pc = "returned"
    /\ ag_pc' = "start"
    /\ max_attempts' = 0
    /\ ag_page_num' = 0
    /\ consecutive_empty_pages' = 0
    /\ ag_all_products' = << >>
    /\ ag_result' = << >>
    /\ attempts' = << >>
    /\ UNCHANGED <<procVars, notAggressive>>

NextAggressive == AggressiveStart \/ AggressivePage \/ AggressiveClose \/ AggressiveAgain

SpecAggressive == Init /\ [][NextAggressive]_vars

(***************************************************************************)
(* SupabaseClient.upload_products (src/coles/db_utils.py)                  *)
(***************************************************************************)
\* batch_size = 100, line 41
BatchSize == 100

\* the category the products are uploaded for
UploadCategory == Dairy

\* a list of n products with the ids 1 to n, as main hands it over
ProductsToUpload(n) == [k \in 1..n |-> [id |-> NatStr(k), category |-> Bakery]]

\* lines 30-38 for one product; no product of main has a scraped_at key
Prepared(product) ==
    LET p1 == Put(Put(product, "uploaded_at", Now), "category", UploadCategory) IN
    IF "scraped_at" \in DOMAIN p1
    THEN Put(Without(p1, {"scraped_at"}), "scrapedAt", p1.scraped_at)
    ELSE p1

Min(a, b) == IF a < b THEN a ELSE b

\* products[i:i+batch_size], line 45
Batch(ps, i) == SubSeq(ps, i + 1, Min(i + BatchSize, Len(ps)))

\* what an upsert comes to: an exception, a result with an error, a result
\* with the rows as data, a result without a data attribute
UpsertOutcomes == {"raises", "error", "data", "no_data"}

\* the count with the batch of a result with an error added as well
InsertedBy_CountsErrors(outcome, rows, batch) ==
    IF outcome = "raises" THEN 0
    ELSE IF outcome = "data" THEN rows
    ELSE Len(batch)

\* what a batch adds to total_inserted, lines 53-60 and 63-64
InsertedBy(outcome, rows, batch) ==
    IF outcome \in {"raises", "error"} THEN 0
    ELSE IF outcome = "data" THEN rows
    ELSE Len(batch)

\* lines 25-42: no products returns 0; else every product is prepared
UploadStart ==
    /\ up_pc = "start"
    /\ \E n \in 0..MaxUploadLen :
         /\ up_products' = [k \in 1..n |-> Prepared(ProductsToUpload(n)[k])]
         /\ up_pc' = IF n = 0 THEN "returned" ELSE "loop"
    /\ up_i' = 0
    /\ total_inserted' = 0
    /\ up_result' = 0
    /\ sent' = << >>
    /\ UNCHANGED <<procVars, notUpload>>

\* one iteration of the loop at line 44; the rows a result carries are those
\* of the batch or none
UploadBatch ==
    /\ up_pc = "loop"
    /\ up_i < Len(up_products)
    /\ LET batch == Batch(up_products, up_i) IN
       \E outcome \in UpsertOutcomes, rows \in {0, Len(batch)} :
         /\ (outcome # "data") => rows = 0
         /\ sent' = Append(sent, [batch |-> batch, outcome |-> outcome, rows |-> rows])
         /\ total_inserted' = total_inserted + InsertedBy(outcome, rows, batch)
    /\ up_i' = up_i + BatchSize
    /\ UNCHANGED <<up_pc, up_products, up_result, procVars, notUpload>>

\* return total_inserted, line 67
UploadReturn ==
    /\ up_pc = "loop"
    /\ up_i >= Len(up_products)
    /\ up_result' = total_inserted
    /\ up_pc' = "returned"
    /\ UNCHANGED <<up_products, up_i, total_inserted, sent, procVars, notUpload>>

\* the next call starts over
UploadAgain ==
    /\ up_pc = "returned"
    /\ up_pc' = "start"
    /\ up_products' = << >>
    /\ up_i' = 0
    /\ total_inserted' = 0
    /\ up_result' = 0
    /\ sent' = << >>
    /\ UNCHANGED <<procVars, notUpload>>

NextUpload == UploadStart \/ UploadBatch \/ UploadReturn \/ UploadAgain

SpecUpload == Init /\ [][NextUpload]_vars

(***************************************************************************)
(* find_duplicates of duplicates.py and of find_duplicate_products.py      *)
(***************************************************************************)
\* what json.load returns for a file: a list, or a dict with its fields
JsonList(items) == [list |-> TRUE, value |-> items]
JsonDict(fields) == [list |-> FALSE, value |-> fields]

\* product entries of the files
MilkEntry == [id |-> Id123, title |-> Milk]
TeaEntry == [id |-> Id999, title |-> Tea]
EmptyIdEntry == [id |-> EmptyStr, title |-> Milk]
NoIdEntry == [title |-> Tea]

\* files of woolworths_data: category is the second part of the file name,
\* data what json.load reads from the file
FilePool ==
    { [category |-> Bakery,
       data |-> JsonDict([products |-> <<MilkEntry, TeaEntry>>, duplicates_removed |-> 2])],
      [category |-> Dairy,
       data |-> JsonDict([products |-> <<MilkEntry, EmptyIdEntry>>, duplicates_removed |-> 1])],
      [category |-> Dairy,
       data |-> JsonDict([products |-> <<TeaEntry, TeaEntry, NoIdEntry>>])],
      [category |-> Bakery, data |-> JsonList(<<MilkEntry, TeaEntry>>)],
      [category |-> Dairy, data |-> JsonList(<<MilkEntry>>)],
      [category |-> Bakery, data |-> JsonDict([metadata |-> EmptyDict])],
      [category |-> Bakery,
       data |-> JsonDict([products |-> << >>, duplicates_removed |-> 0])] }

\* the two files that define find_duplicates
FdFiles == {"duplicates.py", "find_duplicate_products.py"}

\* the locals of find_duplicates as one record
FdLocals ==
    [products_by_id |-> products_by_id,
     category_counts |-> category_counts,
     category_stats |-> category_stats,
     total_products |-> fd_total_products,
     total_duplicates_removed |-> total_duplicates_removed,
     duplicates_removed |-> duplicates_removed,
     errors |-> fd_errors]

\* for product in products: products with an id are appended to
\* products_by_id[product_id] with the name of their file, which the
\* position i of the file in json_files stands for
RECURSIVE IndexProducts(_, _, _, _)
IndexProducts(by_id, ps, i, k) ==
    IF k > Len(ps) THEN by_id
    ELSE LET product_id == Get(ps[k], "id", NoneStr)
         IN IF ~StrTruthy(product_id) THEN IndexProducts(by_id, ps, i, k + 1)
            ELSE IndexProducts(
                    Put(by_id, product_id,
                        Append(Get(by_id, product_id, << >>), Put(ps[k], "source_file", i))),
                    ps, i, k + 1)

\* the body of the loop over json_files in duplicates.py: data.get of line 37
\* raises AttributeError on a list, which the except of line 60 catches
FileStep(st, file, i) ==
    IF file.data.list THEN [st EXCEPT !.errors = Append(@, i)]
    ELSE IF "products" \notin DOMAIN file.data.value THEN st
    ELSE LET ps == file.data.value.products
         IN [st EXCEPT
               !.category_counts = Put(@, file.category, Get(@, file.category, 0) + Len(ps)),
               !.total_products = @ + Len(ps),
               !.products_by_id = IndexProducts(@, ps, i, 1)]

\* expected_products of find_duplicate_products.py, lines 41-42
ExpectedProducts(data) ==
    Get(data, "expected_products",
        Get(Get(data, "metadata", EmptyDict), "total_products_reported", 0))

\* the body of the loop over json_files in find_duplicate_products.py:
\* data.get of line 38 raises AttributeError on a list, and line 51 reads
\* duplicates_removed, which is assigned at line 68 only: while it has no
\* value line 51 raises UnboundLocalError; the except of line 75 catches both
FileStepStats(st, file, i) ==
    IF file.data.list THEN [st EXCEPT !.errors = Append(@, i)]
    ELSE IF "products" \notin DOMAIN file.data.value THEN st
    ELSE LET ps == file.data.value.products
             counted == [st EXCEPT !.total_products = @ + Len(ps)]
         IN IF ~st.duplicates_removed.bound
            THEN [counted EXCEPT !.errors = Append(@, i)]
            ELSE [counted EXCEPT
                    !.total_duplicates_removed = @ + st.duplicates_removed.v,
                    !.products_by_id = IndexProducts(@, ps, i, 1),
                    !.duplicates_removed =
                        Bound(Get(file.data.value, "duplicates_removed", 0)),
                    !.category_stats =
                        Put(@, file.category,
                            [count |-> Len(ps),
                             expected |-> ExpectedProducts(file.data.value),
                             duplicates_removed |-> Get(file.data.value, "duplicates_removed", 0),
                             source_file |-> i])]

\* duplicates = {id: products ... if len(products) > 1 and id}
DuplicateIds(by_id) ==
    [product_id \in {x \in DOMAIN by_id : Len(by_id[x]) > 1 /\ StrTruthy(x)} |->
        by_id[product_id]]

\* an int in the place of the mapping
IntValue(n) == [int |-> n]

\* find_duplicates starts on the files glob has found
FdStart ==
    /\ fd_pc = "start"
    /\ \E f \in FdFiles : fd_file' = f
    /\ \E files \in SeqsUpTo(FilePool, MaxFiles) : json_files' = files
    /\ file_ix' = 1
    /\ fd_pc' = "loop"
    /\ UNCHANGED <<products_by_id, category_counts, category_stats, fd_total_products,
                   total_duplicates_removed, duplicates_removed, fd_duplicates,
                   fd_errors, fd_raised>>
    /\ UNCHANGED <<procVars, notFindDuplicates>>

\* one pass of the loop over json_files
FdFile ==
    /\ fd_pc = "loop"
    /\ file_ix <= Len(json_files)
    /\ LET st == IF fd_file = "duplicates.py"
                 THEN FileStep(FdLocals, json_files[file_ix], file_ix)
                 ELSE FileStepStats(FdLocals, json_files[file_ix], file_ix)
       IN /\ products_by_id' = st.products_by_id
          /\ category_counts' = st.category_counts
          /\ category_stats' = st.category_stats
          /\ fd_total_products' = st.total_products
          /\ total_duplicates_removed' = st.total_duplicates_removed
          /\ duplicates_removed' = st.duplicates_removed
          /\ fd_errors' = st.errors
    /\ file_ix' = file_ix + 1
    /\ UNCHANGED <<fd_pc, fd_file, json_files, fd_duplicates, fd_raised>>
    /\ UNCHANGED <<procVars, notFindDuplicates>>

\* after the loop: the mapping duplicates is built; in
\* find_duplicate_products.py the loop of lines 88-97 assigns the
\* duplicates_removed of a category to the same name, and line 110 uses
\* datetime, which the file does not import, so that the function ends with
\* NameError
FdFinish ==
    /\ fd_pc = "loop"
    /\ file_ix > Len(json_files)
    /\ IF fd_file = "duplicates.py" \/ DOMAIN category_stats = {}
       THEN fd_duplicates' = DuplicateIds(products_by_id)
       ELSE \E category \in DOMAIN category_stats :
               fd_duplicates' = IntValue(category_stats[category].duplicates_removed)
    /\ fd_raised' = (fd_file = "find_duplicate_products.py")
    /\ fd_pc' = "done"
    /\ UNCHANGED <<fd_file, json_files, file_ix, products_by_id, category_counts,
                   category_stats, fd_total_products, total_duplicates_removed,
                   duplicates_removed, fd_errors>>
    /\ UNCHANGED <<procVars, notFindDuplicates>>

\* the script is run again
FdAgain ==
    /\ fd_pc = "done"
    /\ fd_pc' = "start"
    /\ fd_file' = "duplicates.py"
    /\ json_files' = << >>
    /\ file_ix' = 0
    /\ products_by_id' = EmptyDict
    /\ category_counts' = EmptyDict
    /\ category_stats' = EmptyDict
    /\ fd_total_products' = 0
    /\ total_duplicates_removed' = 0
    /\ duplicates_removed' = Unbound
    /\ fd_duplicates' = EmptyDict
    /\ fd_errors' = << >>
    /\ fd_raised' = FALSE
    /\ UNCHANGED <<procVars, notFindDuplicates>>

NextFindDuplicates == FdStart \/ FdFile \/ FdFinish \/ FdAgain

SpecFindDuplicates == Init /\ [][NextFindDuplicates]_vars

(***************************************************************************)
(* Properties of remove_duplicates.                                        *)
(***************************************************************************)
Count(q, r) == Cardinality({k \in DOMAIN q : q[k] = r})
Deduped == pc = "remove_duplicates"

\* the key a record is compared by: its id, or the pseudo id without one
DedupKey(product) ==
    IF StrTruthy(Get(product, "id", EmptyStr)) THEN Get(product, "id", EmptyStr)
    ELSE pseudo_id(product)

EmptyId(product) == Get(product, "id", EmptyStr) = EmptyStr
SameTitlePrice(p, q) ==
    /\ Get(p, "title", EmptyStr) = Get(q, "title", EmptyStr)
    /\ Get(p, "price_value", Int_(0)) = Get(q, "price_value", Int_(0))

\* C1: after remove_duplicates every record of the argument is in exactly one
\* of the two returned lists: the positions held by unique and by duplicates
\* are disjoint and together are all positions, each list holds the records
\* of its positions, so the two lists together are the argument as a
\* multiset and their lengths add up to its length.
C1_DedupIsPartition ==
    Deduped =>
      /\ Len(unique_products) + Len(duplicate_products) = Len(products)
      /\ Range(unique_ix) \cap Range(duplicates_ix) = {}
      /\ Range(unique_ix) \cup Range(duplicates_ix) = DOMAIN products
      /\ Len(unique_ix) = Len(unique_products)
      /\ Len(duplicates_ix) = Len(duplicate_products)
      /\ \A k \in DOMAIN unique_ix : unique_products[k] = products[unique_ix[k]]
      /\ \A k \in DOMAIN duplicates_ix : duplicate_products[k] = products[duplicates_ix[k]]
      /\ \A r \in Range(products) :
            Count(unique_products, r) + Count(duplicate_products, r) = Count(products, r)

\* an argument with two equal records, one kept and one removed
C1_Witness ==
    /\ Deduped
    /\ Len(products) = 3
    /\ products[1] = products[3]
    /\ unique_ix = <<1, 2>>
    /\ duplicates_ix = <<3>>

\* C2: a record of the argument is in duplicates exactly when an earlier
\* record carries the same key, and in unique otherwise, whatever the other
\* fields of the two records are.
C2_FirstOccurrenceWins ==
    Deduped =>
      \A j \in DOMAIN products :
         LET later == \E i \in 1..(j - 1) : DedupKey(products[i]) = DedupKey(products[j])
         IN /\ (j \in Range(duplicates_ix)) = later
            /\ (j \in Range(unique_ix)) = ~later

\* the same id three times under two titles: the first is kept
C2_Witness ==
    /\ Deduped
    /\ Len(products) = 3
    /\ \A j \in 1..3 : Get(products[j], "id", EmptyStr) = Id123
    /\ Get(products[1], "title", EmptyStr) # Get(products[2], "title", EmptyStr)
    /\ Get(products[1], "title", EmptyStr) = Get(products[3], "title", EmptyStr)
    /\ unique_ix = <<1>>
    /\ duplicates_ix = <<2, 3>>

C4_StatsMatchLists ==
    Deduped =>
      /\ product_stats.total_before = Len(products)
      /\ product_stats.total_after = Len(unique_products)
      /\ product_stats.duplicates_removed = product_stats.total_before - product_stats.total_after
      /\ product_stats.duplicates_removed = Len(duplicate_products)

C4_Witness ==
    /\ Deduped
    /\ product_stats.total_before = 3
    /\ product_stats.total_after = 1
    /\ Len(duplicate_products) = 2

\* C5: the counters after a remove_duplicates call are those a processor
\* that was never used before computes for the same argument, whatever the
\* counters were before the call.
C5_StatsAreLastRunOnly ==
    Deduped => product_stats = remove_duplicates(EmptyDict, products).product_stats

\* a second call whose counters are all smaller than those left by the first
C5_Witness ==
    /\ Deduped
    /\ DOMAIN prev_stats # {}
    /\ prev_stats.total_before = 3
    /\ prev_stats.duplicates_removed = 2
    /\ product_stats.total_before = 1
    /\ product_stats.duplicates_removed = 0

(***************************************************************************)
(* Properties of process_products.                                         *)
(***************************************************************************)
Processed == pc = "process_products" /\ ~raised

\* the title of a raw record is absent or the empty string
TitleMissing(r) == "title" \notin DOMAIN r \/ r.title = EmptyStr
\* the raw record has a title that is a non-empty string
HasTitle(r) == "title" \in DOMAIN r /\ r.title # EmptyStr /\ r.title # NoneStr

\* the positions from i on of the records of q with a title, in increasing order
RECURSIVE TitledPositionsFrom(_, _)
TitledPositionsFrom(q, i) ==
    IF i > Len(q) THEN << >>
    ELSE (IF HasTitle(q[i]) THEN <<i>> ELSE << >>) \o TitledPositionsFrom(q, i + 1)

\* C6: a raw record whose title is absent or the empty string gives no
\* record of the output, whatever its other fields are, and an argument
\* made of such records only returns the empty list without raising.
C6_TitlelessRejected ==
    pc = "process_products" =>
      /\ \A i \in DOMAIN raw_records :
            TitleMissing(raw_records[i]) => i \notin Range(processed_ix)
      /\ (\A i \in DOMAIN raw_records : TitleMissing(raw_records[i]))
            => (~raised /\ processed_products = << >>)

\* a record without title key and one with an empty title, both complete
\* otherwise, followed or preceded by nothing else
C6_Witness ==
    /\ Processed
    /\ Len(raw_records) = 2
    /\ "title" \notin DOMAIN raw_records[1]
    /\ "id" \in DOMAIN raw_records[1] /\ raw_records[1].id = Id123
    /\ "title" \in DOMAIN raw_records[2] /\ raw_records[2].title = EmptyStr
    /\ processed_products = << >>

\* C7: the output holds exactly one record for each raw record with a
\* non-empty title, in the order of the argument: its records come from the
\* positions of those raw records in increasing order, each carrying the
\* trimmed title, the category and the page of its raw record.
C7_OrderPreservingImage ==
    Processed =>
      /\ processed_ix = TitledPositionsFrom(raw_records, 1)
      /\ Len(processed_products) = Cardinality({i \in DOMAIN raw_records : HasTitle(raw_records[i])})
      /\ Len(processed_products) = Len(processed_ix)
      /\ \A k \in DOMAIN processed_products :
            LET r == raw_records[processed_ix[k]] IN
            /\ processed_products[k].title = Strip(r.title)
            /\ processed_products[k].category = Get(r, "category", EmptyStr)
            /\ processed_products[k].page = Get(r, "page", Int_(0))

\* Tea first, Milk second, kept in that order
C7_Witness ==
    /\ Processed
    /\ Len(raw_records) = 2
    /\ processed_ix = <<1, 2>>
    /\ processed_products[1].title = Tea
    /\ processed_products[2].title = Milk

\* C8: every record of the output has a non-empty title.
C8_OutputTitleNonEmpty ==
    Processed => \A k \in DOMAIN processed_products : processed_products[k].title # EmptyStr

\* C9: every record of the output has vendor 'coles', whatever vendor the
\* raw record had.
C9_VendorIsColes ==
    Processed =>
      \A k \in DOMAIN processed_products :
         "vendor" \in DOMAIN processed_products[k] /\ processed_products[k].vendor = Coles

\* one raw record scraped with another vendor and one with none
C9_Witness ==
    /\ Processed
    /\ Len(processed_products) = 2
    /\ "vendor" \in DOMAIN raw_records[1] /\ raw_records[1].vendor = <<"a", "l", "d", "i">>
    /\ "vendor" \notin DOMAIN raw_records[2]

RawSave(r) == Get(r, "save_value", Float_(0))
Positive(r, k) == k \in DOMAIN r /\ r[k].t # "none" /\ r[k].v > 0
Derives(r) == RawSave(r).v = 0 /\ Positive(r, "was_price_value") /\ Positive(r, "price_value")

\* C10: the save_value of an output record is round(was_price_value -
\* price_value, 2) when the raw save_value is zero or absent and both raw
\* prices are positive, and is the raw save_value (0.0 for an absent one) in
\* every other case.
C10_SaveValueDerivation ==
    Processed =>
      \A k \in DOMAIN processed_products :
         LET r == raw_records[processed_ix[k]] IN
         IF Derives(r)
         THEN processed_products[k].save_value =
                 Round(Minus(r.was_price_value, r.price_value))
         ELSE processed_products[k].save_value = RawSave(r)

\* save_value 0 with prices 5 and 4 gives 1; save_value 2.5 with the same
\* prices stays 2.5
C10_Witness ==
    /\ Processed
    /\ Len(processed_products) = 2
    /\ \A k \in 1..2 : /\ Get(raw_records[k], "was_price_value", NoneNum) = Int_(5)
                       /\ Get(raw_records[k], "price_value", NoneNum) = Int_(4)
    /\ Get(raw_records[1], "save_value", NoneNum) = Int_(0)
    /\ processed_products[1].save_value = Int_(1)
    /\ Get(raw_records[2], "save_value", NoneNum) = Float_(2500)
    /\ processed_products[2].save_value = Float_(2500)

\* the values a raw record must have for C11: amounts that are present are
\* numbers and not negative
NonNegativeAmounts(r) ==
    \A k \in {"price_value", "was_price_value", "save_value"} :
       k \in DOMAIN r => (r[k].t # "none" /\ r[k].v >= 0)

\* C11: an output record whose raw price_value, was_price_value and
\* save_value are non-negative has a non-negative save_value.
C11_SaveValueNonNegative ==
    Processed =>
      \A k \in DOMAIN processed_products :
         NonNegativeAmounts(raw_records[processed_ix[k]])
            => processed_products[k].save_value.v >= 0

\* C13: a process_products call never raises.
C13_ProcessNeverRaises == pc = "process_products" => ~raised

\* C15: in every output record is_on_special is true exactly when the
\* special_text of that record is non-empty.
C15_SpecialIffText ==
    Processed =>
      \A k \in DOMAIN processed_products :
         processed_products[k].is_on_special
            = (Get(processed_products[k], "special_text", EmptyStr) # EmptyStr)

\* C20: after process_products every record of the argument has the keys and
\* values it had before the call.
C20_ArgumentUnchanged == pc = "process_products" => products = raw_records

\* C12: a second process_products call on the output of a first one returns a
\* list of the same length with the same records.
C12_ProcessIdempotent ==
    (pc = "reprocessed") => (~raised /\ reprocessed = processed_products)

(***************************************************************************)
(* Properties of find_cross_category_duplicates.                           *)
(***************************************************************************)
Crossed == pc = "find_cross_category_duplicates"

\* the pairs (category, product) of the argument whose product has this id
PairsWithId(product_id) ==
    {<<all_category_products[n].category, all_category_products[n].products[m]>> :
        <<n, m>> \in {nm \in (DOMAIN all_category_products) \X (1..MaxCategoryLen) :
                        /\ nm[2] <= Len(all_category_products[nm[1]].products)
                        /\ "id" \in DOMAIN all_category_products[nm[1]].products[nm[2]]
                        /\ all_category_products[nm[1]].products[nm[2]].id = product_id}}

\* the number of products of the argument that have this id
OccurrencesOfId(product_id) ==
    Cardinality({nm \in (DOMAIN all_category_products) \X (1..MaxCategoryLen) :
                   /\ nm[2] <= Len(all_category_products[nm[1]].products)
                   /\ "id" \in DOMAIN all_category_products[nm[1]].products[nm[2]]
                   /\ all_category_products[nm[1]].products[nm[2]].id = product_id})

IdsOfArgument ==
    {Get(all_category_products[nm[1]].products[nm[2]], "id", EmptyStr) :
        nm \in {x \in (DOMAIN all_category_products) \X (1..MaxCategoryLen) :
                  x[2] <= Len(all_category_products[x[1]].products)}}

\* C14: the result has an entry for an id exactly when the id is non-empty
\* and products with it occur under two different categories; it has one
\* entry per such id, no entry for the empty id, and an entry holds every
\* pair (category, product) of the argument with its id, once each.
C14_CrossCategoryGroups ==
    Crossed =>
      /\ \A product_id \in IdsOfArgument \cup {EmptyStr} :
            (\E n \in DOMAIN cross_duplicates : cross_duplicates[n].id = product_id)
              = ( /\ product_id # EmptyStr
                  /\ Cardinality({pair[1] : pair \in PairsWithId(product_id)}) >= 2 )
      /\ \A n, m \in DOMAIN cross_duplicates :
            cross_duplicates[n].id = cross_duplicates[m].id => n = m
      /\ \A n \in DOMAIN cross_duplicates :
            /\ cross_duplicates[n].id \in IdsOfArgument
            /\ Range(cross_duplicates[n].products) = PairsWithId(cross_duplicates[n].id)
            /\ Len(cross_duplicates[n].products) = OccurrencesOfId(cross_duplicates[n].id)

\* id 999 twice under bakery and once under dairy is reported with its three
\* pairs, id 1 under dairy only is not
C14_Witness ==
    /\ Crossed
    /\ Len(all_category_products) = 2
    /\ all_category_products[1].category = Bakery
    /\ Len(all_category_products[1].products) = 2
    /\ \A m \in 1..2 : Get(all_category_products[1].products[m], "id", EmptyStr) = Id999
    /\ Len(all_category_products[2].products) = 2
    /\ Get(all_category_products[2].products[1], "id", EmptyStr) = Id999
    /\ Get(all_category_products[2].products[2], "id", EmptyStr) = <<"1">>
    /\ Len(cross_duplicates) = 1
    /\ cross_duplicates[1].id = Id999
    /\ Len(cross_duplicates[1].products) = 3

(***************************************************************************)
(* The fields of the records process_products returns.                     *)
(***************************************************************************)
SchemaKeys == {"id", "title", "price_value", "was_price_value", "save_value",
               "unit_price", "url", "image_url", "category", "page", "vendor",
               "is_on_special", "special_text", "scrapedAt"}

\* the raw record carries the key with a null value and no step replaces it:
\* vendor is always overwritten, a null id is replaced by the id of the url
NullIn(r, key) ==
    /\ key \in DOMAIN r
    /\ IsNone(key, r[key])
    /\ key # "vendor"
    /\ ~(key = "id" /\ StrTruthy(Get(r, "url", NoneStr)) /\ UrlIdMatch(Get(r, "url", EmptyStr)) # << >>)

\* the defaults of the keys no step computes
PlainDefault ==
    [price_value |-> Float_(0), was_price_value |-> Float_(0), unit_price |-> EmptyStr,
     url |-> EmptyStr, image_url |-> EmptyStr, category |-> EmptyStr,
     special_text |-> EmptyStr, page |-> Int_(0), scrapedAt |-> Now]

NoRateCase(r) ==
    /\ "rate_value" \notin DOMAIN r
    /\ "rate_unit" \notin DOMAIN r
    /\ LET rate_match == RateSearch(CleanUnitPrice(r)) IN
       ~(StrTruthy(CleanUnitPrice(r)) /\ rate_match.ok /\ FloatOk(rate_match.num))

\* C17 as stated: without a rate in the raw record the output record has no
\* rate_value and no rate_unit field.
C17_NoRateFields ==
    Processed =>
      \A k \in DOMAIN processed_products :
         NoRateCase(raw_records[processed_ix[k]])
            => DOMAIN processed_products[k] \cap {"rate_value", "rate_unit"} = {}

\* C17: without a rate in the raw record the output record has rate_value
\* 0.0 and rate_unit ''.
C17_RateDefaults ==
    Processed =>
      \A k \in DOMAIN processed_products :
         NoRateCase(raw_records[processed_ix[k]])
            => /\ Get(processed_products[k], "rate_value", NoneNum) = Float_(0)
               /\ Get(processed_products[k], "rate_unit", NoneStr) = EmptyStr

\* a unit_price with a number float() rejects and an empty unit_price
C17_Witness ==
    /\ Processed
    /\ Len(processed_products) = 2
    /\ Len(raw_records) = 2
    /\ Get(raw_records[1], "unit_price", NoneStr) = UnitTwoDots
    /\ Get(raw_records[2], "unit_price", NoneStr) = EmptyStr
    /\ \A k \in 1..2 : Get(processed_products[k], "rate_value", NoneNum) = Float_(0)

\* the position of the first '|' of s, Len(s) + 1 without one
FirstBar(s) ==
    IF \E n \in DOMAIN s : s[n] = "|"
    THEN CHOOSE n \in DOMAIN s : s[n] = "|" /\ \A m \in 1..(n - 1) : s[m] # "|"
    ELSE Len(s) + 1

\* t is s without the whitespace at its two ends
IsTrimOf(t, s) ==
    /\ t # << >> => t[1] \notin Whitespace /\ t[Len(t)] \notin Whitespace
    /\ \E a \in 0..Len(s) :
          /\ a + Len(t) <= Len(s)
          /\ SubSeq(s, a + 1, a + Len(t)) = t
          /\ \A n \in (1..a) \cup ((a + Len(t) + 1)..Len(s)) : s[n] \in Whitespace

\* C18: for a raw record with a non-empty unit_price the output unit_price
\* is the raw text before the first '|' without the whitespace around it,
\* and the rate fields are those of the first '$<number> per <unit>' of that
\* output text, the unit in lower case; a rate that only the text after the
\* '|' has is not taken.
C18_UnitPriceSegment ==
    Processed =>
      \A k \in DOMAIN processed_products :
         LET r == raw_records[processed_ix[k]]
             out == processed_products[k]
         IN ("unit_price" \in DOMAIN r /\ StrTruthy(r.unit_price)) =>
              /\ "unit_price" \in DOMAIN out
              /\ "|" \notin Range(out.unit_price)
              /\ IsTrimOf(out.unit_price, SubSeq(r.unit_price, 1, FirstBar(r.unit_price) - 1))
              /\ LET rate_match == RateSearch(out.unit_price) IN
                 IF rate_match.ok /\ FloatOk(rate_match.num)
                 THEN /\ out.rate_value = ParseFloat(rate_match.num)
                      /\ out.rate_unit = Lower(rate_match.unit)
                      /\ Range(out.rate_unit) \cap Range(UpperLetters) = {}
                 ELSE DOMAIN r \cap {"rate_value", "rate_unit"} = {}
                         => out.rate_value = Float_(0) /\ out.rate_unit = EmptyStr

\* '$3.50 per Kg | Was $4.00 per kg' gives '$3.50 per Kg', 3.5 and 'kg';
\* 'each | Was $4.00 per KG' gives 'each' and no rate
C18_Witness ==
    /\ Processed
    /\ Len(processed_products) = 2
    /\ Len(raw_records) = 2
    /\ Get(raw_records[1], "unit_price", NoneStr) = UnitKg
    /\ Get(processed_products[1], "unit_price", NoneStr)
          = <<"$", "3", ".", "5", "0", " ", "p", "e", "r", " ", "K", "g">>
    /\ Get(processed_products[1], "rate_value", NoneNum) = Float_(3500)
    /\ Get(processed_products[1], "rate_unit", NoneStr) = <<"k", "g">>
    /\ Get(raw_records[2], "unit_price", NoneStr) = UnitEachWasKg
    /\ Get(processed_products[2], "unit_price", NoneStr) = <<"e", "a", "c", "h">>
    /\ Get(processed_products[2], "rate_value", NoneNum) = Float_(0)
    /\ Get(processed_products[2], "rate_unit", NoneStr) = EmptyStr

\* C19: after remove_duplicates every record of unique and of duplicates is
\* equal, field for field, to the record of the argument at its position,
\* the argument is as it was, and the positions of each list increase.
C19_RemovesOnly ==
    Deduped =>
      /\ \A k \in DOMAIN unique_products :
            /\ unique_ix[k] \in DOMAIN products
            /\ unique_products[k] = products[unique_ix[k]]
      /\ \A k \in DOMAIN duplicate_products :
            /\ duplicates_ix[k] \in DOMAIN products
            /\ duplicate_products[k] = products[duplicates_ix[k]]
      /\ \A k, l \in DOMAIN unique_ix : k < l => unique_ix[k] < unique_ix[l]
      /\ \A k, l \in DOMAIN duplicates_ix : k < l => duplicates_ix[k] < duplicates_ix[l]

\* one id three times with differing fields: the second and the third record
\* are the duplicates, in that order
C19_Witness ==
    /\ Deduped
    /\ Len(products) = 3
    /\ unique_ix = <<1>>
    /\ duplicates_ix = <<2, 3>>
    /\ products[2] # products[3]
    /\ duplicate_products = <<products[2], products[3]>>

\* the digits after the last '-' of url when url ends in '-<digits>', else ''
DashDigitsSuffix(url) ==
    IF \E b \in 2..Len(url) :
          url[b - 1] = "-" /\ \A n \in b..Len(url) : url[n] \in Digits
    THEN LET b == CHOOSE b \in 2..Len(url) :
                     url[b - 1] = "-" /\ \A n \in b..Len(url) : url[n] \in Digits
         IN SubSeq(url, b, Len(url))
    ELSE << >>

\* C21: a non-empty raw id is the output id; with the raw id absent or
\* empty the output id is the digits of a url ending in '-<digits>', and ''
\* when the url is absent or does not end so.
C21_IdFromUrl ==
    Processed =>
      \A k \in DOMAIN processed_products :
         LET r == raw_records[processed_ix[k]]
             out == processed_products[k]
             url == IF "url" \in DOMAIN r /\ r.url # NoneStr THEN r.url ELSE EmptyStr
         IN /\ ("id" \in DOMAIN r /\ StrTruthy(r.id)) => Get(out, "id", NoneStr) = r.id
            /\ ("id" \notin DOMAIN r \/ r.id = EmptyStr)
                  => Get(out, "id", NoneStr) = DashDigitsSuffix(url)

(***************************************************************************)
(* Properties of the category loop of main.                                *)
(***************************************************************************)
\* the three counters a report states, as texts
ReportCounters(report) == <<report[4].values[1], report[5].values[1], report[6].values[1]>>

Zero == <<"0">>

\* main has stored the empty list for the category
StoredEmpty(category) ==
    \E n \in DOMAIN all_category_products :
       /\ all_category_products[n].category = category
       /\ all_category_products[n].products = << >>

\* the files of a category without products: three counters 0, no block
EmptyCategoryWritten(e) ==
    /\ ~e.skipped
    /\ StoredEmpty(e.category)
    /\ Len(e.report) = 7
    /\ ReportCounters(e.report) = <<Zero, Zero, Zero>>
    /\ \A n \in DOMAIN e.report : e.report[n].text # "Removed duplicate products:"
    /\ e.output.products = << >>
    /\ e.output.metadata.actual_products = 0
    /\ e.output.metadata.duplicates_removed = 0

\* C22 as stated: every category that has yielded no canonical product has
\* an empty list stored and a report with three counters 0 and no block.
C22_ZeroCanonicalReported ==
    /\ main_pc # "raised"
    /\ \A k \in DOMAIN main_log :
          LET e == main_log[k] IN
          (e.skipped \/ e.canonical = << >>) => EmptyCategoryWritten(e)

\* C22: a category whose scraped records are all rejected has an empty list
\* stored and a report with three counters 0 and no block; a category whose
\* scrape returned no record is skipped: nothing is stored or written for it.
C22_AllRejectedReported ==
    /\ main_pc # "raised"
    /\ \A k \in DOMAIN main_log :
          LET e == main_log[k] IN
          /\ (e.scraped # << >> /\ ~e.skipped /\ e.canonical = << >>)
                => EmptyCategoryWritten(e)
          /\ e.scraped = << >>
                => /\ e.skipped
                   /\ \A n \in DOMAIN all_category_products :
                         all_category_products[n].category # e.category
          /\ e.scraped # << >> => ~e.skipped

\* the first category has one record without a title, the second none
C22_Witness ==
    /\ Len(main_log) = 2
    /\ main_log[1].scraped # << >>
    /\ ~main_log[1].skipped
    /\ main_log[1].canonical = << >>
    /\ StoredEmpty(Bakery)
    /\ main_log[2].scraped = << >>
    /\ main_log[2].skipped
    /\ Len(all_category_products) = 1

\* C25: the report and the metadata of every handled category carry the
\* counters of the remove_duplicates call of that category: duplicates_removed
\* is the number of its duplicate_products, actual_products its total_after,
\* and after the category is handled product_stats is still that of its call.
C25_StatsOfSameCategory ==
    /\ \A k \in DOMAIN main_log :
          LET e == main_log[k] IN
          ~e.skipped =>
             /\ e.output.metadata.duplicates_removed = Len(e.duplicates)
             /\ e.output.metadata.actual_products = e.total_after
             /\ e.total_after = Len(e.canonical) - Len(e.duplicates)
             /\ ReportCounters(e.report)
                   = <<NatStr(Len(e.canonical)), NatStr(e.total_after),
                       NatStr(Len(e.duplicates))>>
    /\ (main_pc = "loop" /\ main_log # << >> /\ ~main_log[Len(main_log)].skipped)
          => /\ product_stats.duplicates_removed = Len(main_log[Len(main_log)].duplicates)
             /\ metadata = main_log[Len(main_log)].output.metadata
             /\ duplicate_report = main_log[Len(main_log)].report

\* two handled categories: the first with a duplicate, the second with a
\* rejected record and no duplicate
C25_Witness ==
    /\ Len(main_log) = 2
    /\ ~main_log[1].skipped
    /\ ~main_log[2].skipped
    /\ Len(main_log[1].duplicates) = 1
    /\ main_log[1].output.metadata.duplicates_removed = 1
    /\ Len(main_log[2].scraped) > Len(main_log[2].canonical)
    /\ main_log[2].duplicates = << >>
    /\ main_log[2].output.metadata.duplicates_removed = 0

(***************************************************************************)
(* Properties of scrape_category.                                          *)
(***************************************************************************)
\* C23: with max_pages N given the pagination loop loads at most N pages,
\* whether get_total_pages has found the number of pages or not.
C23_AtMostMaxPages == max_pages # 0 => Len(loaded) <= max_pages

\* C26: the list scrape_category returns holds every product the pages
\* processed have yielded, in page order, each with its page number.
C26_KeepsCompletedWork == sc_pc = "returned" => sc_result = extracted

(***************************************************************************)
(* Properties of scrape_category_aggressively.                             *)
(***************************************************************************)
Unproductive(k) == attempts[k].outcome # "products"

\* the number of unproductive attempts at the end of the first n attempts
RECURSIVE TrailingUnproductive(_)
TrailingUnproductive(n) ==
    IF n = 0 \/ ~Unproductive(n) THEN 0 ELSE 1 + TrailingUnproductive(n - 1)

\* C27: the k-th attempt is at page k, there are at most max_attempts
\* attempts, no attempt follows three unproductive attempts in a row, and
\* consecutive_empty_pages counts the unproductive attempts since the last
\* page with products (0 right after such a page).
C27_AggressiveAttempts ==
    /\ \A k \in DOMAIN attempts : attempts[k].page = k
    /\ Len(attempts) <= max_attempts
    /\ \A k \in DOMAIN attempts :
          (k >= 3 /\ Unproductive(k) /\ Unproductive(k - 1) /\ Unproductive(k - 2))
             => Len(attempts) = k
    /\ consecutive_empty_pages = TrailingUnproductive(Len(attempts))
    /\ (ag_pc = "loop" /\ attempts # << >>) => TrailingUnproductive(Len(attempts)) < 3

\* of six attempts allowed five are made: a page with products between
\* unproductive ones, then three unproductive pages of the three kinds
C27_Witness ==
    /\ max_attempts = 6
    /\ ag_pc = "returned"
    /\ Len(attempts) = 5
    /\ [k \in 1..5 |-> attempts[k].outcome]
          = <<"empty", "products", "error_title", "empty", "raises">>
    /\ consecutive_empty_pages = 3
    /\ ag_result = ag_all_products
    /\ Len(ag_result) = 1

(***************************************************************************)
(* Properties of upload_products.                                          *)
(***************************************************************************)
\* the batches sent so far, one after the other
RECURSIVE SentProducts(_)
SentProducts(n) == IF n = 0 THEN << >> ELSE SentProducts(n - 1) \o sent[n].batch

\* the products the successful batches among the first n have added
RECURSIVE CountedRows(_)
CountedRows(n) ==
    IF n = 0 THEN 0
    ELSE CountedRows(n - 1)
         + (IF sent[n].outcome \in {"raises", "error"} THEN 0
            ELSE IF sent[n].outcome = "data" THEN sent[n].rows
            ELSE Len(sent[n].batch))

\* C28: the batches sent are, one after the other, the products in input
\* order, so every product is in exactly one batch; a batch has at most 100
\* products; when the call returns all products have been sent, whatever the
\* upserts before came to; and the count returned is that of the batches
\* whose upsert neither raised nor returned an error.
C28_UploadBatches ==
    /\ \A k \in DOMAIN sent : Len(sent[k].batch) \in 1..100
    /\ SentProducts(Len(sent)) = SubSeq(up_products, 1, Min(up_i, Len(up_products)))
    /\ total_inserted = CountedRows(Len(sent))
    /\ up_pc = "returned"
          => /\ SentProducts(Len(sent)) = up_products
             /\ Len(sent) = (Len(up_products) + 99) \div 100
             /\ up_result = CountedRows(Len(sent))

\* 201 products in batches of 100, 100 and 1: the first upsert raises, the
\* second returns an error, the third succeeds
C28_Witness ==
    /\ up_pc = "returned"
    /\ Len(up_products) = 201
    /\ Len(sent) = 3
    /\ sent[1].outcome = "raises"
    /\ sent[2].outcome = "error"
    /\ sent[3].outcome = "no_data"
    /\ Len(sent[3].batch) = 1
    /\ up_result = 1

(***************************************************************************)
(* Real ids and pseudo ids in remove_duplicates.                           *)
(***************************************************************************)
\* C24: real ids and pseudo-keys do not interfere: a record of the argument
\* with a non-empty id is in duplicates exactly when an earlier record has
\* the same non-empty id, and a record with an empty id is in duplicates
\* exactly when an earlier record with an empty id has the same title and
\* the same price_value.
C24_NoInterference ==
    Deduped =>
      \A j \in DOMAIN products :
         LET id == Get(products[j], "id", EmptyStr)
         IN IF StrTruthy(id)
            THEN (j \in Range(duplicates_ix)) =
                    (\E i \in 1..(j - 1) : Get(products[i], "id", EmptyStr) = id)
            ELSE (j \in Range(duplicates_ix)) =
                    (\E i \in 1..(j - 1) :
                        /\ ~StrTruthy(Get(products[i], "id", EmptyStr))
                        /\ SameTitlePrice(products[i], products[j]))

(***************************************************************************)
(* Properties of find_duplicates.                                          *)
(***************************************************************************)
FdDone == fd_pc = "done"

\* the file with its bare list put under a 'products' field
WithProductsField(file) ==
    IF file.data.list
    THEN [file EXCEPT !.data = JsonDict([products |-> file.data.value])]
    ELSE file

\* the locals before the loop, and after the loop of fd_file over files
LocalsAtStart ==
    [products_by_id |-> EmptyDict, category_counts |-> EmptyDict,
     category_stats |-> EmptyDict, total_products |-> 0,
     total_duplicates_removed |-> 0, duplicates_removed |-> Unbound, errors |-> << >>]

RECURSIVE LocalsAfter(_, _, _)
LocalsAfter(st, files, i) ==
    IF i > Len(files) THEN st
    ELSE LocalsAfter(IF fd_file = "duplicates.py" THEN FileStep(st, files[i], i)
                     ELSE FileStepStats(st, files[i], i),
                     files, i + 1)

\* C29: find_duplicates treats a file that is a bare list of products like
\* the file with that list under 'products': when it is done the total of
\* the products counted and the index by id are what they are for the same
\* files with every bare list put under a 'products' field.
C29_BareListLikeProductsField ==
    FdDone =>
      LET like == LocalsAfter(LocalsAtStart,
                              [i \in DOMAIN json_files |-> WithProductsField(json_files[i])], 1)
      IN /\ fd_total_products = like.total_products
         /\ products_by_id = like.products_by_id

\* a file is well formed when it is a dict with a list under 'products'
WellFormed(file) == ~file.data.list /\ "products" \in DOMAIN file.data.value

\* the product entries of the well-formed files that carry product_id
EntriesWithId(product_id) ==
    { <<i, k>> \in (DOMAIN json_files) \X (1..3) :
        /\ WellFormed(json_files[i])
        /\ k \in DOMAIN json_files[i].data.value.products
        /\ Get(json_files[i].data.value.products[k], "id", NoneStr) = product_id }

\* the sum of the duplicates_removed fields of the well-formed files from i on
RECURSIVE RemovedFrom(_)
RemovedFrom(i) ==
    IF i > Len(json_files) THEN 0
    ELSE (IF WellFormed(json_files[i])
          THEN Get(json_files[i].data.value, "duplicates_removed", 0) ELSE 0)
         + RemovedFrom(i + 1)

\* C30: when the find_duplicates that keeps total_duplicates_removed, the
\* one of find_duplicate_products.py, is done, an id is in the mapping
\* duplicates exactly when at least two product entries of the well-formed
\* files carry it, and total_duplicates_removed is the sum of the
\* duplicates_removed fields of these files.
C30_IndexedAndSummed ==
    (FdDone /\ fd_file = "find_duplicate_products.py") =>
      /\ \A product_id \in {Id123, Id999} :
            (product_id \in DOMAIN fd_duplicates)
               = (Cardinality(EntriesWithId(product_id)) >= 2)
      /\ total_duplicates_removed = RemovedFrom(1)

====
